---- MODULE Spec2Model ----
(***************************************************************************)
(* Model of the patch-reconciliation and diff engine of the C# code        *)
(* generator web application: applyCodePatch, lcs, calculateLineDiff,      *)
(* generateCodeDiffSummary (src/App.tsx), the chunking codec               *)
(* saveLargeDoc / loadLargeDoc (src/services/firestoreService.ts) and the  *)
(* handlers of the App component that mutate the live file collection.     *)
(*                                                                         *)
(* A text is a sequence of one-character strings; "\n" is the newline.     *)
(* A file record is [path, content]; a file collection is a sequence of    *)
(* file records (a JavaScript array).                                      *)
(***************************************************************************)
EXTENDS Integers, Sequences, FiniteSets, TLC

\* ------------------------------------------------------------------------
\* Bounds of the model
\* ------------------------------------------------------------------------
MaxPatchLen == 2
MaxTextLen == 3
MaxCalls == 2

Paths == {"p1", "p2"}
Chars == {"a", "b", "\n"}

\* `undefined` as the value of operation.path / operation.content
NoPath == "<undefined>"
NoContent == <<"<undefined>">>

PatchContents == {<<"a">>, <<"b">>}

\* ------------------------------------------------------------------------
\* Generic helpers
\* ------------------------------------------------------------------------
Range(s) == {s[i] : i \in 1..Len(s)}

Max(x, y) == IF x >= y THEN x ELSE y

RECURSIVE SeqsUpTo(_, _)
SeqsUpTo(S, n) ==
    IF n = 0 THEN {<<>>}
    ELSE LET shorter == SeqsUpTo(S, n - 1)
         IN shorter \cup {Append(s, x) : s \in {t \in shorter : Len(t) = n - 1}, x \in S}

\* a file collection with unique paths, in some array order
FilesOver(P, C) ==
    {fs \in SeqsUpTo([path : P, content : C], Cardinality(P)) :
        \A i, j \in 1..Len(fs) : fs[i].path = fs[j].path => i = j}

\* ------------------------------------------------------------------------
\* State
\* ------------------------------------------------------------------------
VARIABLES
    pCurrent,    \* applyCodePatch: the currentCode argument
    pPatch,      \* applyCodePatch: the patch argument
    pDone,       \* applyCodePatch has returned
    pOut         \* what the call left behind: argument objects and result

patchVars == <<pCurrent, pPatch, pDone, pOut>>

VARIABLES
    dOld,        \* diff engine: oldText / oldContent
    dNew,        \* diff engine: newText / newContent
    dOp,         \* which diff function has been called on the pair
    dMatrix,     \* the table returned by lcs
    dChanged,    \* the set returned by calculateLineDiff
    dChanges     \* the entry list built by generateCodeDiffSummary

diffVars == <<dOld, dNew, dOp, dMatrix, dChanged, dChanges>>

VARIABLES
    store,       \* the persistent store: [docs, chunks]
    sSaved,      \* codec: the arguments of the last saveLargeDoc
    sLoaded,     \* codec: the outcome of the last loadLargeDoc
    sBatch       \* codec: the running saveLargeDoc that commits in batches

storeVars == <<store, sSaved, sLoaded, sBatch>>

VARIABLES
    retry,       \* makeGeminiRequestWithRetry: the locals and position of a call
    gen          \* generateCode: the position of a run and what it caught

genVars == <<retry, gen>>

VARIABLES
    generatedCode,       \* App state: the live file collection
    selectedPackage,     \* App state: the selected package (its files)
    chatHistory,         \* App state: the chat messages shown
    checkpoints,         \* App state: the checkpoint list shown
    checkpointToRevert,  \* App state: the checkpoint awaiting confirmation
    changedFilePaths,    \* App state: the Changed-Path Set
    fileDiffs,           \* App state: the Line-Diff Map
    isLoading,           \* App state: the busy flag
    chatMessages,        \* the persisted chat history subcollection
    send,                \* the running handleSendMessage: position and closure
    save,                \* the running handleSaveFile: position and closure
    revert,              \* the running handleConfirmRevert: position and closure
    calls                \* the number of handlers invoked so far

appVars == <<generatedCode, selectedPackage, chatHistory, checkpoints,
             checkpointToRevert, changedFilePaths, fileDiffs, isLoading,
             chatMessages, send, save, revert, calls>>

\* document references: the package record, and the checkpoint records in
\* the order of their creation (a send creates at most one)
PkgRef == 0

CheckpointRefs == 1..(MaxCalls + 1)

DocRefs == {PkgRef} \cup CheckpointRefs

vars == <<patchVars, diffVars, storeVars, appVars, genVars>>

\* ------------------------------------------------------------------------
\* applyCodePatch  (src/App.tsx 85-105)
\*
\* Objects live in a heap (a sequence of file objects, the index is the
\* reference).  currentCode is an array of references; filesMap is an
\* insertion-ordered list of [key, ref] entries.
\* ------------------------------------------------------------------------
FilePatchOps ==
    [op : {"add", "update"}, path : Paths \cup {NoPath},
     content : PatchContents \cup {NoContent}]
    \cup [op : {"delete"}, path : Paths \cup {NoPath}, content : {NoContent}]

MapHas(m, k) == \E i \in 1..Len(m) : m[i].key = k

MapIndex(m, k) == CHOOSE i \in 1..Len(m) : m[i].key = k

\* Map.prototype.set: replace the value at an existing key (keeping its
\* position) or append a new entry
MapSetKeepFirst(m, k, r) ==
    IF MapHas(m, k) THEN m ELSE Append(m, [key |-> k, ref |-> r])

MapSet(m, k, r) ==
    IF MapHas(m, k)
    THEN [m EXCEPT ![MapIndex(m, k)] = [key |-> k, ref |-> r]]
    ELSE Append(m, [key |-> k, ref |-> r])

\* Map.prototype.delete
MapDelete(m, k) == SelectSeq(m, LAMBDA e : e.key # k)

\* new Map(currentCode.map(file => [file.path, file]))
RECURSIVE MapFromArray(_, _, _)
MapFromArray(heap, arr, m) ==
    IF arr = <<>> THEN m
    ELSE MapFromArray(heap, Tail(arr), MapSet(m, heap[Head(arr)].path, Head(arr)))

\* one iteration of patch.forEach; st = [heap, map]
ApplyOperationInPlace(st, operation) ==
    IF operation.op \in {"add", "update"}
    THEN IF MapHas(st.map, operation.path)
         THEN [st EXCEPT !.heap[st.map[MapIndex(st.map, operation.path)].ref].content
                            = operation.content]
         ELSE LET heap2 == Append(st.heap, [path |-> operation.path,
                                             content |-> operation.content])
              IN [heap |-> heap2, map |-> MapSet(st.map, operation.path, Len(heap2))]
    ELSE IF operation.op = "delete"
    THEN [st EXCEPT !.map = MapDelete(st.map, operation.path)]
    ELSE st

ApplyOperation(st, operation) ==
    IF operation.op \in {"add", "update"}
    THEN LET heap2 == Append(st.heap, [path |-> operation.path,
                                        content |-> operation.content])
         IN [heap |-> heap2, map |-> MapSet(st.map, operation.path, Len(heap2))]
    ELSE IF operation.op = "delete"
    THEN [st EXCEPT !.map = MapDelete(st.map, operation.path)]
    ELSE st

RECURSIVE ApplyOperations(_, _)
ApplyOperations(st, patch) ==
    IF patch = <<>> THEN st
    ELSE ApplyOperations(ApplyOperation(st, Head(patch)), Tail(patch))

\* The whole call.  The heap starts with the objects of currentCode; the
\* outcome records the result array and the argument as it reads afterwards.
applyCodePatchRun(currentCode, patch) ==
    LET heap0 == currentCode
        arr   == [i \in 1..Len(currentCode) |-> i]
        st0   == [heap |-> heap0, map |-> MapFromArray(heap0, arr, <<>>)]
        st    == ApplyOperations(st0, patch)
    IN [result       |-> [i \in 1..Len(st.map) |-> st.heap[st.map[i].ref]],
        currentAfter |-> [i \in 1..Len(arr) |-> st.heap[arr[i]]],
        patchAfter   |-> patch,
        threw        |-> FALSE]

applyCodePatch(currentCode, patch) == applyCodePatchRun(currentCode, patch).result

\* no call made
NoOut == [result |-> <<>>, currentAfter |-> <<>>, patchAfter |-> <<>>, threw |-> FALSE]

PatchIdle ==
    /\ pCurrent = <<>>
    /\ pPatch = <<>>
    /\ pDone = FALSE
    /\ pOut = NoOut

\* ------------------------------------------------------------------------
\* Diffing utilities  (src/App.tsx 30-82, 148-183)
\* ------------------------------------------------------------------------
Texts == SeqsUpTo(Chars, MaxTextLen)

\* String.prototype.split('\n'): always at least one line
RECURSIVE SplitFrom(_, _)
SplitFrom(text, lines) ==
    IF text = <<>> THEN lines
    ELSE IF Head(text) = "\n"
         THEN SplitFrom(Tail(text), Append(lines, <<>>))
         ELSE SplitFrom(Tail(text),
                        [lines EXCEPT ![Len(lines)] = Append(lines[Len(lines)], Head(text))])

Split(text) == SplitFrom(text, << <<>> >>)

\* Array(a.length + 1).fill(null).map(() => Array(b.length + 1).fill(0))
ZeroMatrix(a, b) == [i \in 0..Len(a) |-> [j \in 0..Len(b) |-> 0]]

\* the body of the inner loop of lcs: the value stored at matrix[i][j]
LcsCellNoDiagonal(a, b, matrix, i, j) ==
    IF a[i] = b[j]
    THEN 1 + matrix[i - 1][j]
    ELSE Max(matrix[i - 1][j], matrix[i][j - 1])

LcsCell(a, b, matrix, i, j) ==
    IF a[i] = b[j]
    THEN 1 + matrix[i - 1][j - 1]
    ELSE Max(matrix[i - 1][j], matrix[i][j - 1])

\* for (i = 1..a.length) for (j = 1..b.length)
RECURSIVE LcsLoop(_, _, _, _, _)
LcsLoop(a, b, matrix, i, j) ==
    IF i > Len(a) THEN matrix
    ELSE IF j > Len(b) THEN LcsLoop(a, b, matrix, i + 1, 1)
    ELSE LcsLoop(a, b, [matrix EXCEPT ![i][j] = LcsCell(a, b, matrix, i, j)], i, j + 1)

lcs(a, b) == LcsLoop(a, b, ZeroMatrix(a, b), 1, 1)

\* the line number calculateLineDiff adds to changedLines at new-index j
MarkedLineZeroBased(j) == j - 1

MarkedLine(j) == j

\* the while loop of calculateLineDiff
RECURSIVE LineDiffWalk(_, _, _, _, _, _)
LineDiffWalk(oldLines, newLines, matrix, i, j, changedLines) ==
    IF ~(j > 0) THEN changedLines
    ELSE IF i > 0 /\ oldLines[i] = newLines[j]
    THEN LineDiffWalk(oldLines, newLines, matrix, i - 1, j - 1, changedLines)
    ELSE IF i > 0 /\ (j = 0 \/ matrix[i - 1][j] >= matrix[i][j - 1])
    THEN LineDiffWalk(oldLines, newLines, matrix, i - 1, j,
                      changedLines \cup {MarkedLine(j)})
    ELSE LineDiffWalk(oldLines, newLines, matrix, i, j - 1,
                      changedLines \cup {MarkedLine(j)})

calculateLineDiff(oldText, newText) ==
    IF oldText = newText THEN {}
    ELSE LET oldLines == Split(oldText)
             newLines == Split(newText)
             matrix   == lcs(oldLines, newLines)
         IN LineDiffWalk(oldLines, newLines, matrix, Len(oldLines), Len(newLines), {})

\* changes.unshift(entry)
UnshiftAsPush(changes, entry) == Append(changes, entry)

Unshift(changes, entry) == <<entry>> \o changes

\* the while loop of the "File modified" branch of generateCodeDiffSummary
RECURSIVE DiffSummaryWalk(_, _, _, _, _, _)
DiffSummaryWalk(oldLines, newLines, lcsMatrix, oi, nj, changes) ==
    IF ~(oi > 0 \/ nj > 0) THEN changes
    ELSE IF oi > 0 /\ nj > 0 /\ oldLines[oi] = newLines[nj]
    THEN DiffSummaryWalk(oldLines, newLines, lcsMatrix, oi - 1, nj - 1,
                         Unshift(changes, [type |-> "same", line |-> oldLines[oi]]))
    ELSE IF nj > 0 /\ (oi = 0 \/ lcsMatrix[oi][nj - 1] >= lcsMatrix[oi - 1][nj])
    THEN DiffSummaryWalk(oldLines, newLines, lcsMatrix, oi, nj - 1,
                         Unshift(changes, [type |-> "added", line |-> newLines[nj]]))
    ELSE DiffSummaryWalk(oldLines, newLines, lcsMatrix, oi - 1, nj,
                         Unshift(changes, [type |-> "removed", line |-> oldLines[oi]]))

\* the entry list generateCodeDiffSummary builds for a path held by both
\* collections; a path with equal contents is skipped
ModifiedFileChanges(oldContent, newContent) ==
    IF oldContent = newContent THEN <<>>
    ELSE LET oldLines  == Split(oldContent)
             newLines  == Split(newContent)
             lcsMatrix == lcs(oldLines, newLines)
         IN DiffSummaryWalk(oldLines, newLines, lcsMatrix,
                            Len(oldLines), Len(newLines), <<>>)

\* ------------------------------------------------------------------------
\* Large-payload chunking codec  (src/services/firestoreService.ts 31-123)
\*
\* A serialized string is a sequence of symbols; every symbol counts as one
\* character of its length.  JSON.stringify and JSON.parse are modelled on
\* the grammar
\*     text  ::= "{" (KEY value)* "}"
\*     value ::= "null" | "[" file* "]"
\*     file  ::= "{" ["path" PATH] ["content" "\"" char* "\""] "}"
\* where a newline inside a string is escaped as the two symbols \ n and a
\* property whose value is undefined is left out, as JSON.stringify does.
\*
\* A large value is null or an array of file records.
\* ------------------------------------------------------------------------
Null == [isNull |-> TRUE, items |-> <<>>]

Arr(files) == [isNull |-> FALSE, items |-> files]

RECURSIVE Escape(_)
Escape(text) ==
    IF text = <<>> THEN <<>>
    ELSE IF Head(text) = "\n" THEN <<"\\", "n">> \o Escape(Tail(text))
    ELSE <<Head(text)>> \o Escape(Tail(text))

StringifyText(text) == <<"\"">> \o Escape(text) \o <<"\"">>

StringifyFile(f) ==
    <<"{">>
    \o (IF f.path # NoPath THEN <<"path", f.path>> ELSE <<>>)
    \o (IF f.content # NoContent THEN <<"content">> \o StringifyText(f.content) ELSE <<>>)
    \o <<"}">>

RECURSIVE StringifyFiles(_)
StringifyFiles(files) ==
    IF files = <<>> THEN <<>>
    ELSE StringifyFile(Head(files)) \o StringifyFiles(Tail(files))

StringifyValue(v) ==
    IF v.isNull THEN <<"null">>
    ELSE <<"[">> \o StringifyFiles(v.items) \o <<"]">>

RECURSIVE StringifyEntries(_)
StringifyEntries(entries) ==
    IF entries = <<>> THEN <<>>
    ELSE <<Head(entries).key>> \o StringifyValue(Head(entries).value)
         \o StringifyEntries(Tail(entries))

\* JSON.stringify(largeData); largeData is the list of [key, value] entries
\* of the object literal, in order
JsonStringify(largeData) == <<"{">> \o StringifyEntries(largeData) \o <<"}">>

ParseFail == [ok |-> FALSE, val |-> <<>>, rest |-> <<>>]

ParseOk(v, rest) == [ok |-> TRUE, val |-> v, rest |-> rest]

\* the characters of a string up to its closing quote
RECURSIVE ParseChars(_, _)
ParseChars(ts, acc) ==
    IF ts = <<>> THEN ParseFail
    ELSE IF Head(ts) = "\"" THEN ParseOk(acc, Tail(ts))
    ELSE IF Head(ts) = "\\"
         THEN IF Len(ts) >= 2 /\ ts[2] = "n"
              THEN ParseChars(Tail(Tail(ts)), Append(acc, "\n"))
              ELSE ParseFail
    ELSE IF Head(ts) = "\n" THEN ParseFail
    ELSE ParseChars(Tail(ts), Append(acc, Head(ts)))

ParseText(ts) ==
    IF ts = <<>> \/ Head(ts) # "\"" THEN ParseFail
    ELSE ParseChars(Tail(ts), <<>>)

StructuralSymbols == {"{", "}", "[", "]", "\"", "\\", "null", "path", "content"}

\* the closing brace of a file object; cont is the outcome of its content
ParseFileEnd(path, cont) ==
    IF ~cont.ok THEN ParseFail
    ELSE IF cont.rest = <<>> \/ Head(cont.rest) # "}" THEN ParseFail
    ELSE ParseOk([path |-> path, content |-> cont.val], Tail(cont.rest))

\* the content property of a file object, if it has one
ParseFileContent(path, t2) ==
    ParseFileEnd(path, IF t2 # <<>> /\ Head(t2) = "content"
                       THEN ParseText(Tail(t2)) ELSE ParseOk(NoContent, t2))

ParseFile(ts) ==
    IF ts = <<>> \/ Head(ts) # "{" THEN ParseFail
    ELSE LET t1      == Tail(ts)
             hasPath == Len(t1) >= 2 /\ t1[1] = "path" /\ t1[2] \notin StructuralSymbols
         IN ParseFileContent(IF hasPath THEN t1[2] ELSE NoPath,
                             IF hasPath THEN Tail(Tail(t1)) ELSE t1)

RECURSIVE ParseFiles(_, _)
\* the rest of an array after the element with outcome f
ParseFilesAfter(f, acc) ==
    IF ~f.ok THEN ParseFail ELSE ParseFiles(f.rest, Append(acc, f.val))

ParseFiles(ts, acc) ==
    IF ts = <<>> THEN ParseFail
    ELSE IF Head(ts) = "]" THEN ParseOk(acc, Tail(ts))
    ELSE ParseFilesAfter(ParseFile(ts), acc)

ParseArray(fs) == IF fs.ok THEN ParseOk(Arr(fs.val), fs.rest) ELSE ParseFail

ParseValue(ts) ==
    IF ts = <<>> THEN ParseFail
    ELSE IF Head(ts) = "null" THEN ParseOk(Null, Tail(ts))
    ELSE IF Head(ts) = "[" THEN ParseArray(ParseFiles(Tail(ts), <<>>))
    ELSE ParseFail

LargeKeys == {"files", "originalFiles"}

RECURSIVE ParseEntries(_, _)
\* the rest of an object after the property `key` with outcome v
ParseEntriesAfter(key, v, acc) ==
    IF ~v.ok THEN ParseFail
    ELSE ParseEntries(v.rest, Append(acc, [key |-> key, value |-> v.val]))

ParseEntries(ts, acc) ==
    IF ts = <<>> THEN ParseFail
    ELSE IF Head(ts) = "}" THEN ParseOk(acc, Tail(ts))
    ELSE IF Head(ts) \notin LargeKeys THEN ParseFail
    ELSE ParseEntriesAfter(Head(ts), ParseValue(Tail(ts)), acc)

\* nothing may follow the closing brace of the object
ParseWhole(es) == IF es.ok /\ es.rest = <<>> THEN es ELSE ParseFail

\* JSON.parse(combinedJson): ok = FALSE is the SyntaxError
JsonParse(ts) ==
    IF ts = <<>> \/ Head(ts) # "{" THEN ParseFail
    ELSE ParseWhole(ParseEntries(Tail(ts), <<>>))

\* { ...entries } as the fields of an object: a later entry of a key wins
EntryKeys(entries) == {entries[i].key : i \in 1..Len(entries)}

LastEntry(entries, k) ==
    entries[CHOOSE i \in 1..Len(entries) :
               /\ entries[i].key = k
               /\ \A j \in 1..Len(entries) : entries[j].key = k => j <= i]

EntriesAsFields(entries) == [k \in EntryKeys(entries) |-> LastEntry(entries, k).value]

\* { ...a, ...b }
Spread(a, b) ==
    [f \in (DOMAIN a) \cup (DOMAIN b) |-> IF f \in DOMAIN b THEN b[f] ELSE a[f]]

WithoutFields(a, gone) == [f \in (DOMAIN a) \ gone |-> a[f]]

NoFields == [f \in {} |-> TRUE]

\* the threshold and chunk length, scaled down from 800000 so that
\* collections of one to two small files fall below, on and above it
CHUNK_SIZE == 13

\* for (i = 0; i < json.length; i += CHUNK_SIZE) chunks.push(json.substring(i, i + CHUNK_SIZE))
RECURSIVE ChunksOf(_)
ChunksOf(json) ==
    IF json = <<>> THEN <<>>
    ELSE IF Len(json) <= CHUNK_SIZE THEN <<json>>
    ELSE <<SubSeq(json, 1, CHUNK_SIZE)>> \o ChunksOf(SubSeq(json, CHUNK_SIZE + 1, Len(json)))

\* The store: docs[ref] is [exists, data] for the document at ref, and
\* chunks[ref] maps the index of each record of its data_chunks
\* subcollection to the record's content.
NoDoc == [exists |-> FALSE, data |-> NoFields]

NoChunks == [i \in {} |-> <<>>]

\* batch.set(docRef, fields, { merge: true }) with the fields in `gone`
\* set to deleteField()
SetMerge(doc, fields, gone) ==
    [exists |-> TRUE, data |-> WithoutFields(Spread(doc.data, fields), gone)]

\* batch.set(doc(chunksCol, index.toString()), { content: chunk, index })
\* for every chunk (indices from 0)
WriteChunks(old, chunkList) ==
    [i \in (DOMAIN old) \cup (0..(Len(chunkList) - 1)) |->
        IF i < Len(chunkList) THEN chunkList[i + 1] ELSE old[i]]

\* `if (largeDataJson.length < CHUNK_SIZE)`
StoresInlineUpToThreshold(largeDataJson) == Len(largeDataJson) <= CHUNK_SIZE

StoresInline(largeDataJson) == Len(largeDataJson) < CHUNK_SIZE

\* the writes of saveLargeDoc's single batch, committed; db = [docs, chunks]
saveLargeDoc(db, docRef, baseData, largeData) ==
    LET largeDataJson == JsonStringify(largeData)
    IN IF StoresInline(largeDataJson)
       THEN [db EXCEPT !.docs[docRef] =
                SetMerge(@, Spread(Spread(baseData, EntriesAsFields(largeData)),
                                   [isChunked |-> FALSE]), {})]
       ELSE LET chunkList == ChunksOf(largeDataJson)
            IN [docs   |-> [db.docs EXCEPT ![docRef] =
                              SetMerge(@, Spread(baseData,
                                                 [isChunked |-> TRUE,
                                                  chunkCount |-> Len(chunkList)]),
                                       EntryKeys(largeData))],
                chunks |-> [db.chunks EXCEPT ![docRef] = WriteChunks(@, chunkList)]]

\* getDocs(query(chunksCol, orderBy('index'))) and the forEach that
\* concatenates the contents in index order
RECURSIVE CombineFrom(_, _)
CombineFrom(chunkDocs, todo) ==
    IF todo = {} THEN <<>>
    ELSE LET i == CHOOSE k \in todo : \A l \in todo : k <= l
         IN chunkDocs[i] \o CombineFrom(chunkDocs, todo \ {i})

CombinedJson(chunkDocs) == CombineFrom(chunkDocs, DOMAIN chunkDocs)

\* loadLargeDoc on a snapshot of the document at docRef: what it returns
\* (isNullResult, data), whether it threw and whether it logged an error
\* the end of the try block: the parsed fields merged over the base record,
\* or the catch block, which logs and falls through to `return data`
MergeParsed(data, parsed) ==
    IF parsed.ok
    THEN [isNullResult |-> FALSE,
          data |-> Spread(data, EntriesAsFields(parsed.val)),
          threw |-> FALSE, logged |-> FALSE]
    ELSE [isNullResult |-> FALSE, data |-> data, threw |-> FALSE, logged |-> TRUE]

\* `if (!combinedJson) { console.error(...); return data; }`, then the try block
Reassemble(data, combinedJson) ==
    IF combinedJson = <<>>
    THEN [isNullResult |-> FALSE, data |-> data, threw |-> FALSE, logged |-> TRUE]
    ELSE MergeParsed(data, JsonParse(combinedJson))

loadLargeDoc(db, docRef) ==
    LET doc == db.docs[docRef]
        data == doc.data
    IN IF ~doc.exists
       THEN [isNullResult |-> TRUE, data |-> NoFields, threw |-> FALSE, logged |-> FALSE]
       ELSE IF ~("isChunked" \in DOMAIN data /\ data.isChunked)
       THEN [isNullResult |-> FALSE, data |-> data, threw |-> FALSE, logged |-> FALSE]
       ELSE Reassemble(data, CombinedJson(db.chunks[docRef]))

\* nothing stored, no call made
EmptyStore == [docs |-> [r \in DocRefs |-> NoDoc], chunks |-> [r \in DocRefs |-> NoChunks]]

NothingSaved == [done |-> FALSE, ref |-> PkgRef, baseData |-> NoFields, largeData |-> <<>>]

NothingLoaded ==
    [done |-> FALSE, ref |-> PkgRef,
     result |-> [isNullResult |-> TRUE, data |-> NoFields, threw |-> FALSE, logged |-> FALSE]]

\* ------------------------------------------------------------------------
\* saveLargeDoc committing in several batches  (src/unnamed/part_001 37-95)
\* ------------------------------------------------------------------------
\* the number of chunk writes after which a batch is committed, scaled down
\* from 10 so that a payload of three chunks needs two batches
BATCH_CHUNK_LIMIT == 2

\* the inline branch: one batch with the parent record
saveInline(db, docRef, baseData, largeData) ==
    [db EXCEPT !.docs[docRef] =
        SetMerge(@, Spread(Spread(baseData, EntriesAsFields(largeData)),
                           [isChunked |-> FALSE]), {})]

\* batch.set(chunkDoc, { content: chunks[i], index: i }) for the chunks with
\* index from first to last, committed
CommitChunks(db, docRef, chunkList, first, last) ==
    LET old == db.chunks[docRef]
    IN [db EXCEPT !.chunks[docRef] =
           [i \in (DOMAIN old) \cup (first..last) |->
               IF i \in first..last THEN chunkList[i + 1] ELSE old[i]]]

\* the final batch: the chunks not yet committed and the parent record
CommitFinal(db, docRef, baseData, largeData, chunkList, first) ==
    LET withChunks == CommitChunks(db, docRef, chunkList, first, Len(chunkList) - 1)
    IN [withChunks EXCEPT !.docs[docRef] =
           SetMerge(@, Spread(baseData, [isChunked |-> TRUE,
                                         chunkCount |-> Len(chunkList)]),
                    EntryKeys(largeData))]

\* no batched save running
NoBatch ==
    [pc |-> "idle", ref |-> PkgRef, baseData |-> NoFields, largeData |-> <<>>,
     chunks |-> <<>>, written |-> 0]

StoreIdle ==
    /\ store = EmptyStore
    /\ sSaved = NothingSaved
    /\ sLoaded = NothingLoaded
    /\ sBatch = NoBatch

\* ------------------------------------------------------------------------
\* The services the App handlers await  (src/services/firestoreService.ts)
\* ------------------------------------------------------------------------
\* files.map(file => ({ path: file.path, content: file.content }))
Sanitize(files) ==
    [i \in 1..Len(files) |-> [path |-> files[i].path, content |-> files[i].content]]

\* `docData.key ? ... : ...` : the field is present and not null
Truthy(data, key) == key \in DOMAIN data /\ ~data[key].isNull

convertPackageTimestamps(docData) ==
    [files         |-> IF Truthy(docData, "files")
                       THEN Arr(Sanitize(docData.files.items)) ELSE Null,
     originalFiles |-> IF Truthy(docData, "originalFiles")
                       THEN Arr(Sanitize(docData.originalFiles.items)) ELSE Null]

\* getPackage: found = FALSE is the null result
getPackage(db) ==
    LET fullData == loadLargeDoc(db, PkgRef)
    IN IF fullData.isNullResult
       THEN [found |-> FALSE, files |-> Null, originalFiles |-> Null]
       ELSE LET pkg == convertPackageTimestamps(fullData.data)
            IN [found |-> TRUE, files |-> pkg.files, originalFiles |-> pkg.originalFiles]

\* a value of `undefined` among the properties of the file objects
HasUndefined(largeData) ==
    \E e \in 1..Len(largeData) :
        /\ ~largeData[e].value.isNull
        /\ \E i \in 1..Len(largeData[e].value.items) :
              \/ largeData[e].value.items[i].path = NoPath
              \/ largeData[e].value.items[i].content = NoContent

\* batch.set rejects a field value of undefined; only the inline branch
\* hands the file objects to it (JSON.stringify drops such properties)
saveLargeDocThrows(largeData) ==
    /\ StoresInline(JsonStringify(largeData))
    /\ HasUndefined(largeData)

\* the largeData argument updatePackage builds:
\* { files, originalFiles: currentPkg?.originalFiles || null }
updatePackageData(db, files) ==
    LET currentPkg == getPackage(db)
    IN <<[key |-> "files", value |-> Arr(files)],
         [key |-> "originalFiles",
          value |-> IF currentPkg.found THEN currentPkg.originalFiles ELSE Null]>>

updatePackageThrows(db, files) == saveLargeDocThrows(updatePackageData(db, files))

updatePackage(db, files) ==
    saveLargeDoc(db, PkgRef, [updatedAt |-> "serverTimestamp"], updatePackageData(db, files))

\* doc(checkpointsCollection): a reference no checkpoint has yet
NewCheckpointRefReused(db) == 1

NewCheckpointRef(db) == 1 + Cardinality({r \in CheckpointRefs : db.docs[r].exists})

\* createCheckpoint; createdAt (the server's time) is the order of creation
createCheckpoint(db, message, files) ==
    LET checkpointDocRef == NewCheckpointRef(db)
    IN saveLargeDoc(db, checkpointDocRef,
                    [message |-> message, createdAt |-> checkpointDocRef],
                    <<[key |-> "files", value |-> Arr(files)]>>)

createCheckpointThrows(files) ==
    saveLargeDocThrows(<<[key |-> "files", value |-> Arr(files)]>>)

\* one element of the Promise.all of getCheckpoints
LoadCheckpoint(db, r) ==
    LET fullData == loadLargeDoc(db, r).data
    IN [id      |-> r,
        message |-> fullData.message,
        files   |-> IF Truthy(fullData, "files") THEN Sanitize(fullData.files.items)
                    ELSE <<>>]

\* query(checkpointsCollection, orderBy('createdAt', 'desc')): newest first
RECURSIVE CheckpointsFrom(_, _)
CheckpointsFrom(db, r) ==
    IF r = 0 THEN <<>>
    ELSE (IF db.docs[r].exists THEN <<LoadCheckpoint(db, r)>> ELSE <<>>)
         \o CheckpointsFrom(db, r - 1)

\* the list as the parent records alone give it: a checkpoint stored in
\* chunks comes without its files
getCheckpointsWithoutChunks(db) ==
    [i \in 1..Len(CheckpointsFrom(db, MaxCalls + 1)) |->
        LET c == CheckpointsFrom(db, MaxCalls + 1)[i]
        IN IF "isChunked" \in DOMAIN db.docs[c.id].data /\ db.docs[c.id].data.isChunked
           THEN [c EXCEPT !.files = <<>>] ELSE c]

getCheckpoints(db) == CheckpointsFrom(db, MaxCalls + 1)

\* finalizePackageGeneration on a new project: the package record with
\* files and originalFiles, and the checkpoint "Initial Version"
finalizePackageGeneration(db, files) ==
    LET currentPkg == getPackage(db)
        originalFiles == IF currentPkg.found /\ ~currentPkg.originalFiles.isNull
                         THEN currentPkg.originalFiles ELSE Arr(files)
        saved == saveLargeDoc(db, PkgRef,
                              [status |-> "completed",
                               generationLog |-> "Generation complete.",
                               updatedAt |-> "serverTimestamp"],
                              <<[key |-> "files", value |-> Arr(files)],
                                [key |-> "originalFiles", value |-> originalFiles]>>)
    IN createCheckpoint(saved, "Initial Version", files)

\* the first write of finalizePackageGeneration alone: the package record
finalizePackageSave(db, files) ==
    LET currentPkg == getPackage(db)
        originalFiles == IF currentPkg.found /\ ~currentPkg.originalFiles.isNull
                         THEN currentPkg.originalFiles ELSE Arr(files)
    IN saveLargeDoc(db, PkgRef,
                    [status |-> "completed",
                     generationLog |-> "Generation complete.",
                     updatedAt |-> "serverTimestamp"],
                    <<[key |-> "files", value |-> Arr(files)],
                      [key |-> "originalFiles", value |-> originalFiles]>>)

\* updateDoc(docRef, fields)
updateDoc(db, docRef, fields) ==
    [db EXCEPT !.docs[docRef] = SetMerge(@, fields, {})]

updatePackageGenerationProgress(db) ==
    updateDoc(db, PkgRef, [generationLog |-> "progress", updatedAt |-> "serverTimestamp"])

failPackageGeneration(db, errorMessage) ==
    updateDoc(db, PkgRef, [status |-> "failed", error |-> errorMessage,
                           updatedAt |-> "serverTimestamp"])

\* ------------------------------------------------------------------------
\* Helpers of the App handlers  (src/App.tsx 107-119, 476-578, 652-680)
\* ------------------------------------------------------------------------
\* new Map(files.map(f => [f.path, f.content])): a later record of a path wins
ContentMap(files) ==
    [p \in {files[i].path : i \in 1..Len(files)} |->
        files[CHOOSE i \in 1..Len(files) :
                 /\ files[i].path = p
                 /\ \A j \in 1..Len(files) : files[j].path = p => j <= i].content]

findChangedFiles(oldFiles, newFiles) ==
    LET oldFileMap == ContentMap(oldFiles)
        newFileMap == ContentMap(newFiles)
    IN {path \in DOMAIN newFileMap :
           path \notin DOMAIN oldFileMap \/ oldFileMap[path] # newFileMap[path]}

\* new Map()
NoDiffs == [p \in {} |-> {}]

\* newDiffs.set(path, diff)
DiffsSet(m, path, diff) ==
    [p \in (DOMAIN m) \cup {path} |-> IF p = path THEN diff ELSE m[p]]

\* newDiffs.clear()
DiffsClear(m, path) == NoDiffs

\* newDiffs.delete(path)
DiffsDelete(m, path) == [p \in (DOMAIN m) \ {path} |-> m[p]]

\* oldCode.find(f => f.path === p.path): the content of the first match, or ''
FirstContent(oldCode, path) ==
    IF \E i \in 1..Len(oldCode) : oldCode[i].path = path
    THEN oldCode[CHOOSE i \in 1..Len(oldCode) :
                    /\ oldCode[i].path = path
                    /\ \A j \in 1..Len(oldCode) : oldCode[j].path = path => i <= j].content
    ELSE <<>>

\* the patch.forEach of handleSendMessage that builds newDiffs;
\* acc = [threw, diffs]; calculateLineDiff(oldContent, undefined) throws
RECURSIVE PatchDiffs(_, _, _)
PatchDiffs(oldCode, patch, acc) ==
    IF patch = <<>> THEN acc
    ELSE LET p == Head(patch)
         IN IF p.op \in {"add", "update"}
            THEN IF p.content = NoContent
                 THEN [acc EXCEPT !.threw = TRUE]
                 ELSE LET diff == calculateLineDiff(FirstContent(oldCode, p.path), p.content)
                      IN PatchDiffs(oldCode, Tail(patch),
                                    IF diff # {}
                                    THEN [acc EXCEPT !.diffs = DiffsSet(@, p.path, diff)]
                                    ELSE acc)
            ELSE PatchDiffs(oldCode, Tail(patch), acc)

\* the newCode.forEach of handleConfirmRevert that builds newDiffs
RECURSIVE RevertDiffs(_, _, _)
RevertDiffs(oldFileMap, newCode, acc) ==
    IF newCode = <<>> THEN acc
    ELSE LET newFile == Head(newCode)
             stored == IF newFile.path \in DOMAIN oldFileMap
                       THEN oldFileMap[newFile.path] ELSE NoContent
             oldContent == IF stored = NoContent THEN <<>> ELSE stored
         IN IF newFile.content # oldContent
            THEN IF newFile.content = NoContent
                 THEN [acc EXCEPT !.threw = TRUE]
                 ELSE LET diff == calculateLineDiff(oldContent, newFile.content)
                      IN RevertDiffs(oldFileMap, Tail(newCode),
                                     IF diff # {}
                                     THEN [acc EXCEPT !.diffs = DiffsSet(@, newFile.path, diff)]
                                     ELSE acc)
            ELSE RevertDiffs(oldFileMap, Tail(newCode), acc)

\* generatedCode.map(f => f.path === path ? { ...f, content } : f)
ReplaceContentByAppend(files, path, content) ==
    Append(files, [path |-> path, content |-> content])

ReplaceContent(files, path, content) ==
    [i \in 1..Len(files) |->
        IF files[i].path = path THEN [path |-> files[i].path, content |-> content]
        ELSE files[i]]

\* chat messages: the user's, and the model messages the handlers write
UserMessage(message) == [role |-> "user", content |-> message, about |-> ""]

DoneMessage == [role |-> "model", content |-> "Done!", about |-> ""]

ErrorMessage == [role |-> "model", content |-> "error processing", about |-> ""]

RevertMessage(message) == [role |-> "model", content |-> "reverted", about |-> message]

RevertErrorMessage == [role |-> "model", content |-> "error reverting", about |-> ""]

\* null, as the value of checkpointToRevert
NoCheckpoint == [id |-> 0, message |-> "", files |-> <<>>]

\* no handler running
SendIdle ==
    [pc |-> "idle", message |-> "", generatedCode |-> <<>>, newHistory |-> <<>>,
     patch |-> <<>>, updatedCode |-> <<>>]

SaveIdle == [pc |-> "idle", path |-> "", originalCode |-> <<>>, updatedCode |-> <<>>]

RevertIdle == [pc |-> "idle", id |-> 0, newCode |-> <<>>, message |-> ""]

\* no project open
AppIdle ==
    /\ generatedCode = <<>>
    /\ selectedPackage = [files |-> <<>>]
    /\ chatHistory = <<>>
    /\ checkpoints = <<>>
    /\ checkpointToRevert = NoCheckpoint
    /\ changedFilePaths = {}
    /\ fileDiffs = NoDiffs
    /\ isLoading = FALSE
    /\ chatMessages = <<>>
    /\ send = SendIdle
    /\ save = SaveIdle
    /\ revert = RevertIdle
    /\ calls = 0

\* ------------------------------------------------------------------------
\* makeGeminiRequestWithRetry  (src/services/geminiService.ts 79-173)
\*
\* An error is what the catch block reads of it: the code, the status, whether
\* the message holds "input token count exceeds the maximum", and the
\* retryDelay string of its RetryInfo detail (NoHint: no such detail).
\* Texts are token sequences; times are milliseconds.
\* ------------------------------------------------------------------------
maxRetries == 3

InitialDelay == 1000

MaxChunks == 2

NoHint == <<>>

QuotaError(retryDelay) ==
    [code |-> 429, status |-> "RESOURCE_EXHAUSTED", tokenLimit |-> FALSE,
     retryDelay |-> retryDelay]

TooLargeError ==
    [code |-> 400, status |-> "INVALID_ARGUMENT", tokenLimit |-> TRUE, retryDelay |-> NoHint]

InvalidArgumentError ==
    [code |-> 400, status |-> "INVALID_ARGUMENT", tokenLimit |-> FALSE, retryDelay |-> NoHint]

InternalError ==
    [code |-> 500, status |-> "INTERNAL", tokenLimit |-> FALSE, retryDelay |-> NoHint]

\* what onProgressUpdate rejects with: an error of the store, without a
\* numeric code or a JSON message
ProgressError ==
    [code |-> 0, status |-> "", tokenLimit |-> FALSE, retryDelay |-> NoHint]

\* the retryDelay strings the server may send: a Duration in JSON, whole or
\* with a fraction
RetryDelays == {<<"2", "s">>, <<"1", "0", "s">>, <<"1", "0", ".", "5", "s">>}

ApiErrors ==
    {QuotaError(NoHint), TooLargeError, InvalidArgumentError, InternalError}
    \cup {QuotaError(d) : d \in RetryDelays}

DigitValue ==
    [c \in {"0", "1", "2", "3", "4", "5", "6", "7", "8", "9"} |->
        CASE c = "0" -> 0 [] c = "1" -> 1 [] c = "2" -> 2 [] c = "3" -> 3
          [] c = "4" -> 4 [] c = "5" -> 5 [] c = "6" -> 6 [] c = "7" -> 7
          [] c = "8" -> 8 [] c = "9" -> 9]

IsDigit(c) == c \in DOMAIN DigitValue

\* the end of the longest run of digits that starts at i
RECURSIVE DigitRunEnd(_, _)
DigitRunEnd(text, i) ==
    IF i < Len(text) /\ IsDigit(text[i + 1]) THEN DigitRunEnd(text, i + 1) ELSE i

\* /(\d+)s/ matches at i: digits from i on, then the letter s
DelayMatchesAt(text, i) ==
    /\ IsDigit(text[i])
    /\ DigitRunEnd(text, i) < Len(text)
    /\ text[DigitRunEnd(text, i) + 1] = "s"

\* parseInt of the digits text[i..j]
RECURSIVE ParseIntFrom(_, _, _, _)
ParseIntFrom(text, i, j, acc) ==
    IF i > j THEN acc
    ELSE ParseIntFrom(text, i + 1, j, acc * 10 + DigitValue[text[i]])

\* retryInfo.retryDelay.match(/(\d+)s/) and parseInt(match[1]): the first
\* match from the left; found = FALSE when there is none or no RetryInfo
ParseRetryDelay(text) ==
    IF \E i \in 1..Len(text) : DelayMatchesAt(text, i)
    THEN LET i == CHOOSE k \in 1..Len(text) :
                      /\ DelayMatchesAt(text, k)
                      /\ \A m \in 1..Len(text) : DelayMatchesAt(text, m) => k <= m
         IN [found |-> TRUE, seconds |-> ParseIntFrom(text, i, DigitRunEnd(text, i), 0)]
    ELSE [found |-> FALSE, seconds |-> 0]

\* let retryAfterSeconds = delay / 1000, replaced by the parsed retryDelay
RetryAfterSeconds(delay, e) ==
    IF ParseRetryDelay(e.retryDelay).found
    THEN ParseRetryDelay(e.retryDelay).seconds
    ELSE delay \div 1000

NoResult == [kind |-> "none", text |-> <<>>, error |-> ProgressError]

\* no call made
RetryIdle ==
    [pc |-> "idle", attempt |-> 0, delay |-> InitialDelay, fullResponseText |-> <<>>,
     chunks |-> 0, waitTime |-> 0, requests |-> 0, waits |-> <<>>, failures |-> <<>>,
     result |-> NoResult]

\* the head of the while loop: the next attempt up to its first await, or
\* the throw after the loop
NextAttempt(r) ==
    IF r.attempt < maxRetries
    THEN [r EXCEPT !.attempt = @ + 1, !.pc = "progress", !.chunks = 0]
    ELSE [r EXCEPT !.pc = "raised",
                   !.result = [kind |-> "unknown", text |-> <<>>, error |-> ProgressError]]

\* the branch of the catch block an error takes
ErrorClassRetriesAll(e) ==
    IF e.code = 400 /\ e.tokenLimit THEN "tooLarge" ELSE "quota"

ErrorClass(e) ==
    IF e.code = 400 /\ e.tokenLimit THEN "tooLarge"
    ELSE IF e.code = 429 \/ e.status = "RESOURCE_EXHAUSTED" THEN "quota"
    ELSE "other"

\* the catch block that retries whatever the attempt number
CaughtAlwaysRetries(r, e) ==
    LET seen == [r EXCEPT !.failures = Append(@, e)]
    IN IF ErrorClass(e) = "quota"
       THEN [seen EXCEPT !.pc = "retryProgress",
                         !.waitTime = RetryAfterSeconds(r.delay, e) * 1000]
       ELSE [seen EXCEPT !.pc = "raised",
                         !.result = [kind |-> "rethrown", text |-> <<>>, error |-> e]]

\* the catch block with the error e, up to its throw or its first await
Caught(r, e) ==
    LET seen == [r EXCEPT !.failures = Append(@, e)]
    IN IF ErrorClass(e) = "tooLarge"
       THEN [seen EXCEPT !.pc = "raised",
                         !.result = [kind |-> "tooLarge", text |-> <<>>, error |-> e]]
       ELSE IF ErrorClass(e) = "quota"
       THEN IF r.attempt < maxRetries
            THEN [seen EXCEPT !.pc = "retryProgress",
                              !.waitTime = RetryAfterSeconds(r.delay, e) * 1000]
            ELSE [seen EXCEPT !.pc = "raised",
                              !.result = [kind |-> "quota", text |-> <<>>, error |-> e]]
       ELSE [seen EXCEPT !.pc = "raised",
                         !.result = [kind |-> "rethrown", text |-> <<>>, error |-> e]]

\* ------------------------------------------------------------------------
\* generateCode  (src/services/geminiService.ts 176-277)
\* ------------------------------------------------------------------------
GenRunIdle == [pc |-> "idle", errorMessage |-> "", files |-> <<>>]

\* parseJsonResponse: JSON.parse, then the check that the value is an array
\* of objects with a string path and a string content
parseJsonResponse(jsonString) ==
    LET parsed == ParseValue(jsonString)
    IN IF /\ parsed.ok
          /\ parsed.rest = <<>>
          /\ ~parsed.val.isNull
          /\ \A i \in 1..Len(parsed.val.items) :
                 /\ parsed.val.items[i].path # NoPath
                 /\ parsed.val.items[i].content # NoContent
       THEN [threw |-> FALSE, files |-> parsed.val.items]
       ELSE [threw |-> TRUE, files |-> <<>>]

\* no generation running, no request made
GenIdle ==
    /\ retry = RetryIdle
    /\ gen = GenRunIdle

\* ------------------------------------------------------------------------
\* Specification of the diff engine alone: any two texts of at most
\* MaxTextLen characters, and one call of one of the three functions.
\* ------------------------------------------------------------------------
DiffIdle ==
    /\ dOld = <<>>
    /\ dNew = <<>>
    /\ dOp = "none"
    /\ dMatrix = ZeroMatrix(<<>>, <<>>)
    /\ dChanged = {}
    /\ dChanges = <<>>

InitDiff ==
    /\ GenIdle
    /\ PatchIdle
    /\ StoreIdle
    /\ AppIdle
    /\ dOld \in Texts
    /\ dNew \in Texts
    /\ dOp = "none"
    /\ dMatrix = ZeroMatrix(<<>>, <<>>)
    /\ dChanged = {}
    /\ dChanges = <<>>

CallLcs ==
    /\ dOp = "none"
    /\ dOp' = "lcs"
    /\ dMatrix' = lcs(Split(dOld), Split(dNew))
    /\ UNCHANGED <<dOld, dNew, dChanged, dChanges, patchVars, storeVars, appVars, genVars>>

CallCalculateLineDiff ==
    /\ dOp = "none"
    /\ dOp' = "calculateLineDiff"
    /\ dChanged' = calculateLineDiff(dOld, dNew)
    /\ UNCHANGED <<dOld, dNew, dMatrix, dChanges, patchVars, storeVars, appVars, genVars>>

CallGenerateCodeDiffSummary ==
    /\ dOp = "none"
    /\ dOp' = "generateCodeDiffSummary"
    /\ dChanges' = ModifiedFileChanges(dOld, dNew)
    /\ UNCHANGED <<dOld, dNew, dMatrix, dChanged, patchVars, storeVars, appVars, genVars>>

NextDiff ==
    \/ CallLcs
    \/ CallCalculateLineDiff
    \/ CallGenerateCodeDiffSummary

SpecDiff == InitDiff /\ [][NextDiff]_vars

\* ------------------------------------------------------------------------
\* Specification of the chunking codec alone: saves of payloads of any
\* size to a record, in any order, and loads of the record.
\* ------------------------------------------------------------------------
StoreContents == {<<"a">>, <<"b", "\n", "a">>}

StoreFileLists == FilesOver(Paths, StoreContents)

StoreBaseRecords == {[message |-> "m1"], [message |-> "m2"]}

StorePayloads ==
    {<<[key |-> "files", value |-> Arr(fs)]>> : fs \in StoreFileLists}
    \cup {<<[key |-> "files", value |-> Arr(fs)],
            [key |-> "originalFiles", value |-> Null]>> : fs \in StoreFileLists}

InitStore ==
    /\ GenIdle
    /\ PatchIdle
    /\ DiffIdle
    /\ StoreIdle
    /\ AppIdle

\* await saveLargeDoc(docRef, baseData, largeData), the commit succeeding
CallSaveLargeDoc ==
    \E docRef \in {PkgRef}, baseData \in StoreBaseRecords, largeData \in StorePayloads :
        /\ sBatch.pc = "idle"
        /\ store' = saveLargeDoc(store, docRef, baseData, largeData)
        /\ sSaved' = [done |-> TRUE, ref |-> docRef,
                      baseData |-> baseData, largeData |-> largeData]
        /\ sLoaded' = NothingLoaded
        /\ UNCHANGED <<sBatch, patchVars, diffVars, appVars, genVars>>

\* await loadLargeDoc(await getDoc(docRef))
CallLoadLargeDoc ==
    \E docRef \in {PkgRef} :
        /\ sLoaded' = [done |-> TRUE, ref |-> docRef, result |-> loadLargeDoc(store, docRef)]
        /\ UNCHANGED <<store, sSaved, sBatch, patchVars, diffVars, appVars, genVars>>

\* the batched saveLargeDoc up to its first `await batch.commit()`: the
\* inline branch commits its one batch; the other branch has cut the chunks
CallSaveLargeDocBatched ==
    \E docRef \in {PkgRef}, baseData \in StoreBaseRecords, largeData \in StorePayloads :
        /\ sBatch.pc = "idle"
        /\ sLoaded' = NothingLoaded
        /\ IF StoresInline(JsonStringify(largeData))
           THEN /\ store' = saveInline(store, docRef, baseData, largeData)
                /\ sSaved' = [done |-> TRUE, ref |-> docRef,
                              baseData |-> baseData, largeData |-> largeData]
                /\ UNCHANGED sBatch
           ELSE /\ sBatch' = [pc |-> "commit", ref |-> docRef, baseData |-> baseData,
                              largeData |-> largeData,
                              chunks |-> ChunksOf(JsonStringify(largeData)),
                              written |-> 0]
                /\ sSaved' = NothingSaved
                /\ UNCHANGED store
        /\ UNCHANGED <<patchVars, diffVars, appVars, genVars>>

\* a batch of BATCH_CHUNK_LIMIT chunk records is committed inside the loop
BatchCommitted ==
    /\ sBatch.pc = "commit"
    /\ Len(sBatch.chunks) - sBatch.written >= BATCH_CHUNK_LIMIT
    /\ store' = CommitChunks(store, sBatch.ref, sBatch.chunks, sBatch.written,
                             sBatch.written + BATCH_CHUNK_LIMIT - 1)
    /\ sBatch' = [sBatch EXCEPT !.written = @ + BATCH_CHUNK_LIMIT]
    /\ UNCHANGED <<sSaved, sLoaded, patchVars, diffVars, appVars, genVars>>

\* the final batch, with the remaining chunk records and the parent record,
\* is committed and saveLargeDoc returns
FinalBatchCommitted ==
    /\ sBatch.pc = "commit"
    /\ Len(sBatch.chunks) - sBatch.written < BATCH_CHUNK_LIMIT
    /\ store' = CommitFinal(store, sBatch.ref, sBatch.baseData, sBatch.largeData,
                            sBatch.chunks, sBatch.written)
    /\ sSaved' = [done |-> TRUE, ref |-> sBatch.ref,
                  baseData |-> sBatch.baseData, largeData |-> sBatch.largeData]
    /\ sLoaded' = NothingLoaded
    /\ sBatch' = NoBatch
    /\ UNCHANGED <<patchVars, diffVars, appVars, genVars>>

\* a commit rejects: saveLargeDoc throws, the batches committed so far stay
BatchCommitRejected ==
    /\ sBatch.pc = "commit"
    /\ sBatch' = NoBatch
    /\ sLoaded' = NothingLoaded
    /\ UNCHANGED <<store, sSaved, patchVars, diffVars, appVars, genVars>>

NextStore ==
    \/ CallSaveLargeDoc
    \/ CallLoadLargeDoc
    \/ CallSaveLargeDocBatched
    \/ BatchCommitted
    \/ FinalBatchCommitted
    \/ BatchCommitRejected

SpecStore == InitStore /\ [][NextStore]_vars

\* ------------------------------------------------------------------------
\* Specification of the patch reconciler alone: any collection with unique
\* paths, any patch of at most MaxPatchLen operations.
\* ------------------------------------------------------------------------
InitPatch ==
    /\ GenIdle
    /\ DiffIdle
    /\ StoreIdle
    /\ AppIdle
    /\ pCurrent \in FilesOver(Paths, PatchContents)
    /\ pPatch \in SeqsUpTo(FilePatchOps, MaxPatchLen)
    /\ pDone = FALSE
    /\ pOut = NoOut

CallApplyCodePatch ==
    /\ ~pDone
    /\ pOut' = applyCodePatchRun(pCurrent, pPatch)
    /\ pDone' = TRUE
    /\ UNCHANGED <<pCurrent, pPatch, diffVars, storeVars, appVars, genVars>>

NextPatch == CallApplyCodePatch

SpecPatch == InitPatch /\ [][NextPatch]_vars

\* ------------------------------------------------------------------------
\* Specification of the App component: a project is open, and the user
\* sends chat requests, saves edited files and reverts to checkpoints.
\* Every handler is one step per await; the steps of different handlers
\* interleave, and a handler works on the state its closure captured when
\* it was invoked.  At most one instance of each handler runs at a time and
\* at most MaxCalls handlers are invoked.
\* ------------------------------------------------------------------------
Messages == {"m1"}

AppContents == {<<"a">>, <<"a", "\n", "b">>}

AppInitFiles ==
    {<<[path |-> "p1", content |-> <<"a">>]>>,
     <<[path |-> "p1", content |-> <<"a">>],
       [path |-> "p2", content |-> <<"a", "\n", "b">>]>>}

\* what refineCode may resolve with: parsePatchJsonResponse only checks that
\* the response is an array, so an operation may lack its path or content
AppPatchOps ==
    {[op |-> "update", path |-> "p1", content |-> <<"a", "\n", "b">>],
     [op |-> "update", path |-> "p2", content |-> <<"a">>],
     [op |-> "add", path |-> "p2", content |-> <<"a", "\n", "b">>],
     [op |-> "delete", path |-> "p1", content |-> NoContent],
     [op |-> "delete", path |-> "p2", content |-> NoContent],
     [op |-> "add", path |-> NoPath, content |-> <<"a">>],
     [op |-> "update", path |-> "p1", content |-> NoContent]}

\* patches of one operation, two patches of two on the same path, and one
\* patch on two paths
AppPatches ==
    {<<o>> : o \in AppPatchOps}
    \cup {<<[op |-> "delete", path |-> "p2", content |-> NoContent],
            [op |-> "add", path |-> "p2", content |-> <<"a">>]>>,
          <<[op |-> "update", path |-> "p1", content |-> <<"a", "\n", "b">>],
            [op |-> "delete", path |-> "p1", content |-> NoContent]>>,
          <<[op |-> "update", path |-> "p1", content |-> <<"a", "\n", "b">>],
            [op |-> "add", path |-> "p2", content |-> <<"a", "\n", "b">>]>>}

\* createPackageForGeneration without base files
createPackageForGeneration(db) ==
    saveLargeDoc(db, PkgRef,
                 [status |-> "generating", generationLog |-> "Initializing...",
                  error |-> ""],
                 <<[key |-> "files", value |-> Null],
                   [key |-> "originalFiles", value |-> Null]>>)

\* the state after generation has finished and handleSelectPackage has
\* loaded the project
Init ==
    /\ GenIdle
    /\ PatchIdle
    /\ DiffIdle
    /\ sSaved = NothingSaved
    /\ sLoaded = NothingLoaded
    /\ sBatch = NoBatch
    /\ \E files \in AppInitFiles :
          /\ store = finalizePackageGeneration(createPackageForGeneration(EmptyStore), files)
          /\ generatedCode = files
          /\ selectedPackage = [files |-> files]
    /\ chatHistory = <<>>
    /\ checkpoints = getCheckpoints(store)
    /\ checkpointToRevert = NoCheckpoint
    /\ changedFilePaths = {}
    /\ fileDiffs = NoDiffs
    /\ isLoading = FALSE
    /\ chatMessages = <<>>
    /\ send = SendIdle
    /\ save = SaveIdle
    /\ revert = RevertIdle
    /\ calls = 0

idleVars == <<patchVars, diffVars, sSaved, sLoaded, sBatch, genVars>>

\* handleSendMessage up to `await addChatMessage(userMessage)`
HandleSendMessage ==
    \E message \in Messages :
        /\ send.pc = "idle"
        /\ ~isLoading
        /\ calls < MaxCalls
        /\ chatHistory' = Append(chatHistory, UserMessage(message))
        /\ send' = [pc |-> "addUserMessage", message |-> message,
                    generatedCode |-> generatedCode, newHistory |-> chatHistory',
                    patch |-> <<>>, updatedCode |-> <<>>]
        /\ calls' = calls + 1
        /\ UNCHANGED <<generatedCode, selectedPackage, checkpoints, checkpointToRevert,
                       changedFilePaths, fileDiffs, isLoading, chatMessages, save,
                       revert, store, idleVars>>

\* the user message is stored; up to `await createCheckpoint(...)`
SendUserMessageStored ==
    /\ send.pc = "addUserMessage"
    /\ chatMessages' = Append(chatMessages, UserMessage(send.message))
    /\ isLoading' = TRUE
    /\ fileDiffs' = NoDiffs
    /\ send' = [send EXCEPT !.pc = "createCheckpoint"]
    /\ UNCHANGED <<generatedCode, selectedPackage, chatHistory, checkpoints,
                   checkpointToRevert, changedFilePaths, save, revert, calls,
                   store, idleVars>>

\* the checkpoint is stored; up to `await getCheckpoints(...)`
SendCheckpointCreated ==
    /\ send.pc = "createCheckpoint"
    /\ ~createCheckpointThrows(send.generatedCode)
    /\ store' = createCheckpoint(store, send.message, send.generatedCode)
    /\ send' = [send EXCEPT !.pc = "getCheckpoints"]
    /\ UNCHANGED <<generatedCode, selectedPackage, chatHistory, checkpoints,
                   checkpointToRevert, changedFilePaths, fileDiffs, isLoading,
                   chatMessages, save, revert, calls, idleVars>>

\* the checkpoint list is loaded; up to `await refineCode(...)`
SendCheckpointsLoaded ==
    /\ send.pc = "getCheckpoints"
    /\ checkpoints' = getCheckpoints(store)
    /\ send' = [send EXCEPT !.pc = "refineCode"]
    /\ UNCHANGED <<generatedCode, selectedPackage, chatHistory, checkpointToRevert,
                   changedFilePaths, fileDiffs, isLoading, chatMessages, save,
                   revert, calls, store, idleVars>>

\* refineCode resolves with a patch; up to `await updatePackage(...)`, or
\* into the catch block when building newDiffs throws
SendPatchReceived ==
    \E patch \in AppPatches :
        LET oldCode == send.generatedCode
            updatedCode == applyCodePatch(send.generatedCode, patch)
            newDiffs == PatchDiffs(oldCode, patch, [threw |-> FALSE, diffs |-> NoDiffs])
        IN /\ send.pc = "refineCode"
           /\ IF newDiffs.threw
              THEN /\ changedFilePaths' = {}
                   /\ send' = [send EXCEPT !.pc = "addErrorMessage"]
                   /\ UNCHANGED fileDiffs
              ELSE /\ fileDiffs' = newDiffs.diffs
                   /\ send' = [send EXCEPT !.pc = "updatePackage", !.patch = patch,
                                           !.updatedCode = updatedCode]
                   /\ UNCHANGED changedFilePaths
           /\ UNCHANGED <<generatedCode, selectedPackage, chatHistory, checkpoints,
                          checkpointToRevert, isLoading, chatMessages, save, revert,
                          calls, store, idleVars>>

\* the patched collection is stored; up to `await addChatMessage(modelMessage)`
SendPackageUpdated ==
    /\ send.pc = "updatePackage"
    /\ ~updatePackageThrows(store, send.updatedCode)
    /\ store' = updatePackage(store, send.updatedCode)
    /\ generatedCode' = send.updatedCode
    /\ selectedPackage' = [files |-> send.updatedCode]
    /\ changedFilePaths' = {send.patch[i].path : i \in 1..Len(send.patch)}
    /\ send' = [send EXCEPT !.pc = "addModelMessage"]
    /\ UNCHANGED <<chatHistory, checkpoints, checkpointToRevert, fileDiffs, isLoading,
                   chatMessages, save, revert, calls, idleVars>>

\* the model message is stored; the handler returns through `finally`
SendModelMessageStored ==
    /\ send.pc = "addModelMessage"
    /\ chatMessages' = Append(chatMessages, DoneMessage)
    /\ chatHistory' = Append(send.newHistory, DoneMessage)
    /\ isLoading' = FALSE
    /\ send' = SendIdle
    /\ UNCHANGED <<generatedCode, selectedPackage, checkpoints, checkpointToRevert,
                   changedFilePaths, fileDiffs, save, revert, calls, store, idleVars>>

\* the error message of the catch block is stored; `finally`
SendErrorMessageStored ==
    /\ send.pc = "addErrorMessage"
    /\ chatMessages' = Append(chatMessages, ErrorMessage)
    /\ chatHistory' = Append(send.newHistory, ErrorMessage)
    /\ isLoading' = FALSE
    /\ send' = SendIdle
    /\ UNCHANGED <<generatedCode, selectedPackage, checkpoints, checkpointToRevert,
                   changedFilePaths, fileDiffs, save, revert, calls, store, idleVars>>

\* the promise handleSendMessage awaits rejects: outside the try block the
\* handler ends; inside it the catch block runs up to its addChatMessage;
\* in the catch block only `finally` is left
SendAwaitRejected ==
    /\ send.pc # "idle"
    /\ IF send.pc = "addUserMessage"
       THEN /\ send' = SendIdle
            /\ UNCHANGED <<changedFilePaths, isLoading>>
       ELSE IF send.pc = "addErrorMessage"
       THEN /\ send' = SendIdle
            /\ isLoading' = FALSE
            /\ UNCHANGED changedFilePaths
       ELSE /\ send' = [send EXCEPT !.pc = "addErrorMessage"]
            /\ changedFilePaths' = {}
            /\ UNCHANGED isLoading
    /\ UNCHANGED <<generatedCode, selectedPackage, chatHistory, checkpoints,
                   checkpointToRevert, fileDiffs, chatMessages, save, revert, calls,
                   store, idleVars>>

\* handleSaveFile up to `await updatePackage(...)`: the editor offers the
\* save of a file of the live collection whose text was changed, and not
\* while an earlier save of its own is still running
HandleSaveFile ==
    \E i \in 1..Len(generatedCode), content \in AppContents :
        LET path == generatedCode[i].path
            originalCode == generatedCode
            updatedCode == ReplaceContent(generatedCode, path, content)
        IN /\ save.pc = "idle"
           /\ calls < MaxCalls
           /\ content # generatedCode[i].content
           /\ generatedCode' = updatedCode
           /\ selectedPackage' = [files |-> updatedCode]
           /\ changedFilePaths' = changedFilePaths \cup {path}
           /\ fileDiffs' = IF path \in DOMAIN fileDiffs
                           THEN DiffsDelete(fileDiffs, path) ELSE fileDiffs
           /\ save' = [pc |-> "updatePackage", path |-> path,
                       originalCode |-> originalCode, updatedCode |-> updatedCode]
           /\ calls' = calls + 1
           /\ UNCHANGED <<chatHistory, checkpoints, checkpointToRevert, isLoading,
                          chatMessages, send, revert, store, idleVars>>

\* the edited collection is stored; the handler returns
SaveFilePersisted ==
    /\ save.pc = "updatePackage"
    /\ ~updatePackageThrows(store, save.updatedCode)
    /\ store' = updatePackage(store, save.updatedCode)
    /\ save' = SaveIdle
    /\ UNCHANGED <<generatedCode, selectedPackage, chatHistory, checkpoints,
                   checkpointToRevert, changedFilePaths, fileDiffs, isLoading,
                   chatMessages, send, revert, calls, idleVars>>

\* updatePackage rejects: the catch block puts originalCode back
SaveFileRejected ==
    /\ save.pc = "updatePackage"
    /\ generatedCode' = save.originalCode
    /\ selectedPackage' = [files |-> save.originalCode]
    /\ save' = SaveIdle
    /\ UNCHANGED <<chatHistory, checkpoints, checkpointToRevert, changedFilePaths,
                   fileDiffs, isLoading, chatMessages, send, revert, calls, store,
                   idleVars>>

\* handleRevertRequest: the user picks a checkpoint of the list
HandleRevertRequest ==
    \E i \in 1..Len(checkpoints) :
        /\ calls < MaxCalls
        /\ checkpointToRevert = NoCheckpoint
        /\ checkpointToRevert' = checkpoints[i]
        /\ UNCHANGED <<generatedCode, selectedPackage, chatHistory, checkpoints,
                       changedFilePaths, fileDiffs, isLoading, chatMessages, send,
                       save, revert, calls, store, idleVars>>

\* handleConfirmRevert up to `await updatePackage(...)`, then the onClose of
\* the confirmation dialog (ConfirmationModal: onConfirm(); onClose();)
HandleConfirmRevert ==
    LET oldCode == selectedPackage.files
        newCode == checkpointToRevert.files
        newDiffs == RevertDiffs(ContentMap(oldCode), newCode,
                                [threw |-> FALSE, diffs |-> NoDiffs])
    IN /\ checkpointToRevert # NoCheckpoint
       /\ revert.pc = "idle"
       /\ calls < MaxCalls
       /\ changedFilePaths' = findChangedFiles(oldCode, newCode)
       /\ IF newDiffs.threw
          THEN /\ chatHistory' = Append(chatHistory, RevertErrorMessage)
               /\ isLoading' = FALSE
               /\ UNCHANGED <<fileDiffs, revert>>
          ELSE /\ fileDiffs' = newDiffs.diffs
               /\ isLoading' = TRUE
               /\ revert' = [pc |-> "updatePackage", id |-> checkpointToRevert.id,
                             newCode |-> newCode,
                             message |-> checkpointToRevert.message]
               /\ UNCHANGED chatHistory
       /\ checkpointToRevert' = NoCheckpoint
       /\ calls' = calls + 1
       /\ UNCHANGED <<generatedCode, selectedPackage, checkpoints, chatMessages, send,
                      save, store, idleVars>>

\* the checkpoint's collection is stored; up to `await addChatMessage(...)`
RevertPackageUpdated ==
    /\ revert.pc = "updatePackage"
    /\ ~updatePackageThrows(store, revert.newCode)
    /\ store' = updatePackage(store, revert.newCode)
    /\ generatedCode' = revert.newCode
    /\ selectedPackage' = [files |-> revert.newCode]
    /\ revert' = [revert EXCEPT !.pc = "addChatMessage"]
    /\ UNCHANGED <<chatHistory, checkpoints, checkpointToRevert, changedFilePaths,
                   fileDiffs, isLoading, chatMessages, send, save, calls, idleVars>>

\* the revert message is stored; `finally`
RevertMessageStored ==
    /\ revert.pc = "addChatMessage"
    /\ chatMessages' = Append(chatMessages, RevertMessage(revert.message))
    /\ chatHistory' = Append(chatHistory, RevertMessage(revert.message))
    /\ isLoading' = FALSE
    /\ checkpointToRevert' = NoCheckpoint
    /\ revert' = RevertIdle
    /\ UNCHANGED <<generatedCode, selectedPackage, checkpoints, changedFilePaths,
                   fileDiffs, send, save, calls, store, idleVars>>

\* the promise handleConfirmRevert awaits rejects: catch, then `finally`
RevertAwaitRejected ==
    /\ revert.pc # "idle"
    /\ chatHistory' = Append(chatHistory, RevertErrorMessage)
    /\ isLoading' = FALSE
    /\ checkpointToRevert' = NoCheckpoint
    /\ revert' = RevertIdle
    /\ UNCHANGED <<generatedCode, selectedPackage, checkpoints, changedFilePaths,
                   fileDiffs, chatMessages, send, save, calls, store, idleVars>>

Next ==
    \/ HandleSendMessage
    \/ SendUserMessageStored
    \/ SendCheckpointCreated
    \/ SendCheckpointsLoaded
    \/ SendPatchReceived
    \/ SendPackageUpdated
    \/ SendModelMessageStored
    \/ SendErrorMessageStored
    \/ SendAwaitRejected
    \/ HandleSaveFile
    \/ SaveFilePersisted
    \/ SaveFileRejected
    \/ HandleRevertRequest
    \/ HandleConfirmRevert
    \/ RevertPackageUpdated
    \/ RevertMessageStored
    \/ RevertAwaitRejected

Spec == Init /\ [][Next]_vars

\* ------------------------------------------------------------------------
\* Specification of makeGeminiRequestWithRetry alone: one call, with
\* maxRetries = 3 as its callers pass it; every awaited promise may resolve
\* or reject, and a stream yields at most MaxChunks chunks.
\* ------------------------------------------------------------------------
InitRetry ==
    /\ PatchIdle
    /\ DiffIdle
    /\ StoreIdle
    /\ AppIdle
    /\ GenIdle

retryFrame == <<patchVars, diffVars, storeVars, appVars, gen>>

\* the pieces a response stream may deliver: the halves of the JSON of one
\* generated file, and a chunk without text
ChunkTexts ==
    {<<"[", "{", "path", "p1", "content">>, <<"\"", "a", "\"", "}", "]">>, <<>>}

\* onProgressUpdate resolves: generateCode passes the write of the
\* generation log, refineCode a setter of the App
ProgressWritten ==
    /\ store' = IF gen.pc = "request" THEN updatePackageGenerationProgress(store)
                ELSE store
    /\ UNCHANGED <<patchVars, diffVars, sSaved, sLoaded, sBatch, appVars, gen>>

\* the call, up to `await onProgressUpdate("Attempt 1/3 ...")`
CallMakeGeminiRequestWithRetry ==
    /\ retry.pc = "idle"
    /\ retry' = NextAttempt(RetryIdle)
    /\ UNCHANGED retryFrame

\* the progress line is written; requestFn is called and awaited
AttemptProgressResolved ==
    /\ retry.pc = "progress"
    /\ retry' = [retry EXCEPT !.pc = "request", !.requests = @ + 1]
    /\ ProgressWritten

\* onProgressUpdate rejects inside the try block
AttemptProgressRejected ==
    /\ retry.pc \in {"progress", "chunkProgress"}
    /\ retry' = Caught(retry, ProgressError)
    /\ UNCHANGED retryFrame

\* requestFn resolves with a stream; fullResponseText is reset
RequestResolved ==
    /\ retry.pc = "request"
    /\ retry' = [retry EXCEPT !.pc = "stream", !.fullResponseText = <<>>]
    /\ UNCHANGED retryFrame

\* requestFn rejects, or the stream throws
RequestRejected ==
    \E e \in ApiErrors :
        /\ retry.pc \in {"request", "stream"}
        /\ retry' = Caught(retry, e)
        /\ UNCHANGED retryFrame

\* the stream yields a chunk: its text, when it has one, is appended and
\* the cumulative text is reported
StreamChunk ==
    \E chunkText \in ChunkTexts :
        /\ retry.pc = "stream"
        /\ retry.chunks < MaxChunks
        /\ retry' = IF chunkText # <<>>
                    THEN [retry EXCEPT !.fullResponseText = @ \o chunkText,
                                       !.chunks = @ + 1, !.pc = "chunkProgress"]
                    ELSE [retry EXCEPT !.chunks = @ + 1]
        /\ UNCHANGED retryFrame

\* the report of the cumulative text is written
ChunkProgressResolved ==
    /\ retry.pc = "chunkProgress"
    /\ retry' = [retry EXCEPT !.pc = "stream"]
    /\ ProgressWritten

\* the stream ends: return fullResponseText
StreamEnded ==
    /\ retry.pc = "stream"
    /\ retry' = [retry EXCEPT !.pc = "returned",
                              !.result = [kind |-> "text", text |-> retry.fullResponseText,
                                          error |-> ProgressError]]
    /\ UNCHANGED retryFrame

\* the "Quota exceeded. Retrying in ..." line is written; the timer is set
RetryProgressResolved ==
    /\ retry.pc = "retryProgress"
    /\ retry' = [retry EXCEPT !.pc = "wait", !.waits = Append(@, retry.waitTime)]
    /\ ProgressWritten

\* onProgressUpdate rejects inside the catch block: the rejection leaves
\* the function
RetryProgressRejected ==
    /\ retry.pc = "retryProgress"
    /\ retry' = [retry EXCEPT !.pc = "raised",
                              !.result = [kind |-> "rethrown", text |-> <<>>,
                                          error |-> ProgressError]]
    /\ UNCHANGED retryFrame

\* the timer fires: delay *= 2, and the loop goes round
WaitElapsed ==
    /\ retry.pc = "wait"
    /\ retry' = NextAttempt([retry EXCEPT !.delay = @ * 2])
    /\ UNCHANGED retryFrame

NextRetry ==
    \/ CallMakeGeminiRequestWithRetry
    \/ AttemptProgressResolved
    \/ AttemptProgressRejected
    \/ RequestResolved
    \/ RequestRejected
    \/ StreamChunk
    \/ ChunkProgressResolved
    \/ StreamEnded
    \/ RetryProgressResolved
    \/ RetryProgressRejected
    \/ WaitElapsed

SpecRetry == InitRetry /\ [][NextRetry]_vars

\* every awaited promise settles and every timer fires
SpecRetryLive == SpecRetry /\ WF_vars(NextRetry)

\* ------------------------------------------------------------------------
\* Specification of generateCode: one run on a package that
\* createPackageForGeneration has just stored; every awaited promise may
\* resolve or reject.
\* ------------------------------------------------------------------------
InitGen ==
    /\ PatchIdle
    /\ DiffIdle
    /\ AppIdle
    /\ GenIdle
    /\ store = createPackageForGeneration(EmptyStore)
    /\ sSaved = NothingSaved
    /\ sLoaded = NothingLoaded
    /\ sBatch = NoBatch

genFrame == <<patchVars, diffVars, sSaved, sLoaded, sBatch, appVars>>

\* generateCode up to the first await of makeGeminiRequestWithRetry
CallGenerateCode ==
    /\ gen.pc = "idle"
    /\ retry.pc = "idle"
    /\ gen' = [gen EXCEPT !.pc = "request"]
    /\ retry' = NextAttempt(RetryIdle)
    /\ UNCHANGED <<store, genFrame>>

\* the response text is returned and parsed: up to the `await getPackage`
\* of finalizePackageGeneration, or into the catch block
GenResponseReturned ==
    LET parsed == parseJsonResponse(retry.result.text)
    IN /\ gen.pc = "request"
       /\ retry.pc = "returned"
       /\ gen' = IF parsed.threw
                 THEN [gen EXCEPT !.pc = "fail", !.errorMessage = "malformed"]
                 ELSE [gen EXCEPT !.pc = "getPackage", !.files = parsed.files]
       /\ UNCHANGED <<store, retry, genFrame>>

\* makeGeminiRequestWithRetry raises: the catch block, up to
\* `await failPackageGeneration`
GenRequestRaised ==
    /\ gen.pc = "request"
    /\ retry.pc = "raised"
    /\ gen' = [gen EXCEPT !.pc = "fail", !.errorMessage = retry.result.kind]
    /\ UNCHANGED <<store, retry, genFrame>>

\* finalizePackageGeneration: the package is read
FinalizePackageLoaded ==
    /\ gen.pc = "getPackage"
    /\ gen' = [gen EXCEPT !.pc = "savePackage"]
    /\ UNCHANGED <<store, retry, genFrame>>

\* finalizePackageGeneration: the package record is saved as completed
FinalizePackageSaved ==
    /\ gen.pc = "savePackage"
    /\ store' = finalizePackageSave(store, gen.files)
    /\ gen' = [gen EXCEPT !.pc = "saveCheckpoint"]
    /\ UNCHANGED <<retry, genFrame>>

\* finalizePackageGeneration: the checkpoint is saved; generateCode returns
FinalizeCheckpointSaved ==
    /\ gen.pc = "saveCheckpoint"
    /\ store' = createCheckpoint(store, "Initial Version", gen.files)
    /\ gen' = [gen EXCEPT !.pc = "done"]
    /\ UNCHANGED <<retry, genFrame>>

\* an await of finalizePackageGeneration rejects: the catch block
FinalizeAwaitRejected ==
    /\ gen.pc \in {"getPackage", "savePackage", "saveCheckpoint"}
    /\ gen' = [gen EXCEPT !.pc = "fail", !.errorMessage = "store"]
    /\ UNCHANGED <<store, retry, genFrame>>

\* failPackageGeneration is written; generateCode returns
FailureStored ==
    /\ gen.pc = "fail"
    /\ store' = failPackageGeneration(store, gen.errorMessage)
    /\ gen' = [gen EXCEPT !.pc = "done"]
    /\ UNCHANGED <<retry, genFrame>>

\* failPackageGeneration rejects: the promise of generateCode rejects
FailureWriteRejected ==
    /\ gen.pc = "fail"
    /\ gen' = [gen EXCEPT !.pc = "rejected"]
    /\ UNCHANGED <<store, retry, genFrame>>

NextGen ==
    \/ CallGenerateCode
    \/ AttemptProgressResolved
    \/ AttemptProgressRejected
    \/ RequestResolved
    \/ RequestRejected
    \/ StreamChunk
    \/ ChunkProgressResolved
    \/ StreamEnded
    \/ RetryProgressResolved
    \/ RetryProgressRejected
    \/ WaitElapsed
    \/ GenResponseReturned
    \/ GenRequestRaised
    \/ FinalizePackageLoaded
    \/ FinalizePackageSaved
    \/ FinalizeCheckpointSaved
    \/ FinalizeAwaitRejected
    \/ FailureStored
    \/ FailureWriteRejected

SpecGen == InitGen /\ [][NextGen]_vars

\* every awaited promise settles and every timer fires
SpecGenLive == SpecGen /\ WF_vars(NextGen)

\* ------------------------------------------------------------------------
\* Properties of the patch reconciler
\* ------------------------------------------------------------------------
WellFormedOp(o) ==
    /\ o.path # NoPath
    /\ o.op \in {"add", "update"} => o.content # NoContent

WellFormedPatch(patch) == \A i \in 1..Len(patch) : WellFormedOp(patch[i])

HoldsFile(files, p, c) ==
    \E i \in 1..Len(files) : files[i].path = p /\ files[i].content = c

OpsNaming(patch, p) == {i \in 1..Len(patch) : patch[i].path = p}

LastOpNaming(patch, p) ==
    CHOOSE i \in OpsNaming(patch, p) : \A j \in OpsNaming(patch, p) : j <= i

ExpectedAfterPatch(current, patch, p, c) ==
    IF OpsNaming(patch, p) # {}
    THEN /\ patch[LastOpNaming(patch, p)].op \in {"add", "update"}
         /\ patch[LastOpNaming(patch, p)].content = c
    ELSE HoldsFile(current, p, c)

UniquePaths(files) ==
    \A i, j \in 1..Len(files) : files[i].path = files[j].path => i = j

\* C1: for a collection with unique paths and a patch of add/update/delete
\* operations, the result holds path p with content c exactly when the last
\* operation naming p is an add or update carrying c, or no operation names p
\* and the current collection holds p with c; the result holds nothing else.
C1_PatchSemantics ==
    (pDone /\ WellFormedPatch(pPatch)) =>
        /\ \A p \in Paths, c \in PatchContents :
              HoldsFile(pOut.result, p, c) <=> ExpectedAfterPatch(pCurrent, pPatch, p, c)
        /\ \A i \in 1..Len(pOut.result) :
              pOut.result[i].path \in Paths /\ pOut.result[i].content \in PatchContents
        /\ UniquePaths(pOut.result)

\* a later update overrode an earlier upsert of a path the collection held
C1_Witness ==
    /\ pDone
    /\ Len(pPatch) = 2
    /\ WellFormedPatch(pPatch)
    /\ pPatch[1].op = "add"
    /\ pPatch[2].op = "update"
    /\ pPatch[1].path = pPatch[2].path
    /\ pPatch[1].content # pPatch[2].content
    /\ HoldsFile(pCurrent, pPatch[1].path, pPatch[1].content)
    /\ HoldsFile(pOut.result, pPatch[2].path, pPatch[2].content)

\* C3 (as claimed): a patch with a malformed operation makes the whole apply
\* fail with a validation error and yields no collection.
C3_MalformedPatchFails ==
    (pDone /\ ~WellFormedPatch(pPatch)) => (pOut.threw /\ pOut.result = <<>>)

\* C4: the call leaves its arguments as they were: the current collection
\* reads the same (paths and contents) after the call, and so does the patch.
C4_ApplyIsPure ==
    pDone => (pOut.currentAfter = pCurrent /\ pOut.patchAfter = pPatch)

\* an update replaced the content of a file the argument holds
C4_Witness ==
    /\ pDone
    /\ \E i \in 1..Len(pPatch), k \in 1..Len(pCurrent) :
          /\ pPatch[i].op = "update"
          /\ pPatch[i].path = pCurrent[k].path
          /\ pPatch[i].content # pCurrent[k].content
          /\ HoldsFile(pOut.result, pPatch[i].path, pPatch[i].content)
          /\ pOut.currentAfter[k] = pCurrent[k]

\* ------------------------------------------------------------------------
\* Properties of the diff engine
\* ------------------------------------------------------------------------
RECURSIVE IsSubsequence(_, _)
IsSubsequence(s, t) ==
    IF s = <<>> THEN TRUE
    ELSE IF t = <<>> THEN FALSE
    ELSE IF Head(s) = Head(t) THEN IsSubsequence(Tail(s), Tail(t))
    ELSE IsSubsequence(s, Tail(t))

\* the elements of s at the positions in keep, in order
RECURSIVE PickFrom(_, _, _)
PickFrom(s, keep, k) ==
    IF k > Len(s) THEN <<>>
    ELSE IF k \in keep THEN <<s[k]>> \o PickFrom(s, keep, k + 1)
    ELSE PickFrom(s, keep, k + 1)

Pick(s, keep) == PickFrom(s, keep, 1)

\* length of a longest common subsequence, by enumeration
BruteForceLcs(a, b) ==
    LET common == {keep \in SUBSET (1..Len(a)) : IsSubsequence(Pick(a, keep), b)}
    IN CHOOSE n \in 0..Len(a) :
          /\ \E keep \in common : Cardinality(keep) = n
          /\ \A keep \in common : Cardinality(keep) <= n

\* C5: every cell L[i][j] of the table returned by lcs is the length of a
\* longest common subsequence of the first i lines of A and the first j
\* lines of B; row 0 and column 0 are zero.
C5_LcsTable ==
    dOp = "lcs" =>
        LET a == Split(dOld)
            b == Split(dNew)
        IN /\ DOMAIN dMatrix = 0..Len(a)
           /\ \A i \in 0..Len(a) :
                 /\ DOMAIN dMatrix[i] = 0..Len(b)
                 /\ \A j \in 0..Len(b) :
                       dMatrix[i][j] = BruteForceLcs(SubSeq(a, 1, i), SubSeq(b, 1, j))
           /\ \A j \in 0..Len(b) : dMatrix[0][j] = 0
           /\ \A i \in 0..Len(a) : dMatrix[i][0] = 0

\* two 2-line texts whose common subsequence is one line long and is not a
\* common prefix
C5_Witness ==
    /\ dOp = "lcs"
    /\ Len(Split(dOld)) = 2
    /\ Len(Split(dNew)) = 2
    /\ dMatrix[2][2] = 1
    /\ dMatrix[1][1] = 0

\* C6 (as claimed): for oldText # newText the number of marked lines is
\* exactly n - L[m][n]: no line of the common subsequence is marked.
C6_MarksOnlyUncommonLines ==
    (dOp = "calculateLineDiff" /\ dOld # dNew) =>
        Cardinality(dChanged) =
            Len(Split(dNew)) - BruteForceLcs(Split(dOld), Split(dNew))

\* C7: for oldText # newText every marked number is a line number of
\* newText, and the unmarked lines of newText, in order, are a subsequence
\* of the lines of oldText.
C7_UnmatchedLinesMarked ==
    (dOp = "calculateLineDiff" /\ dOld # dNew) =>
        LET newLines == Split(dNew)
        IN /\ dChanged \subseteq 1..Len(newLines)
           /\ IsSubsequence(Pick(newLines, (1..Len(newLines)) \ dChanged), Split(dOld))

\* a line was inserted between two kept lines: only it is marked
C7_Witness ==
    /\ dOp = "calculateLineDiff"
    /\ Len(Split(dOld)) = 2
    /\ Len(Split(dNew)) = 3
    /\ dChanged = {2}

\* C8: for contents that differ, the entries of type same or removed spell
\* the old line sequence and the entries of type same or added spell the new
\* line sequence, in order.
EntryLines(changes, types) ==
    LET kept == SelectSeq(changes, LAMBDA e : e.type \in types)
    IN [k \in 1..Len(kept) |-> kept[k].line]

C8_FaithfulSequentialDiff ==
    (dOp = "generateCodeDiffSummary" /\ dOld # dNew) =>
        /\ EntryLines(dChanges, {"same", "removed"}) = Split(dOld)
        /\ EntryLines(dChanges, {"same", "added"}) = Split(dNew)

\* an interleaved diff: a removal, a kept line and an addition
C8_Witness ==
    /\ dOp = "generateCodeDiffSummary"
    /\ dOld # dNew
    /\ \E i, j, k \in 1..Len(dChanges) :
          /\ i < j /\ j < k
          /\ dChanges[i].type = "removed"
          /\ dChanges[j].type = "same"
          /\ dChanges[k].type = "added"

\* ------------------------------------------------------------------------
\* Properties of the chunking codec
\* ------------------------------------------------------------------------
\* the loaded record agrees with { ...baseData, ...largeData } on every field
LoadedIsMerge(result, baseData, largeData) ==
    LET expected == Spread(baseData, EntriesAsFields(largeData))
    IN /\ ~result.isNullResult
       /\ ~result.threw
       /\ \A f \in DOMAIN expected :
             f \in DOMAIN result.data /\ result.data[f] = expected[f]

ReassemblyFails(db, docRef) ==
    \/ CombinedJson(db.chunks[docRef]) = <<>>
    \/ ~JsonParse(CombinedJson(db.chunks[docRef])).ok

IsChunkedDoc(db, docRef) ==
    /\ db.docs[docRef].exists
    /\ "isChunked" \in DOMAIN db.docs[docRef].data
    /\ db.docs[docRef].data.isChunked

\* C9 (as claimed): a load right after saveLargeDoc yields the base fields
\* merged with the large fields, whatever the serialized length.
C9_RoundTrip ==
    (sLoaded.done /\ sSaved.done /\ sLoaded.ref = sSaved.ref) =>
        LoadedIsMerge(sLoaded.result, sSaved.baseData, sSaved.largeData)

\* C10 (as claimed): a chunked load whose reassembly fails does not return:
\* it fails, and never hands back the parent's fields without the large ones.
C10_FailedReassemblyFailsLoad ==
    (sLoaded.done /\ IsChunkedDoc(store, sLoaded.ref) /\ ReassemblyFails(store, sLoaded.ref))
        => sLoaded.result.threw

\* sanity: the round trip on a record without left-over chunk records
RoundTripWithoutLeftovers ==
    (sLoaded.done /\ sSaved.done /\ sLoaded.ref = sSaved.ref
       /\ (IsChunkedDoc(store, sSaved.ref) =>
              DOMAIN store.chunks[sSaved.ref] = 0..(store.docs[sSaved.ref].data.chunkCount - 1)))
        => LoadedIsMerge(sLoaded.result, sSaved.baseData, sSaved.largeData)

\* ceil(n / d)
CeilDiv(n, d) == (n + d - 1) \div d

\* the step is a call of saveLargeDoc that has returned (or leaves the state
\* such a call produced as it is)
SaveReturns == sSaved'.done /\ ~sLoaded'.done

\* C11: saveLargeDoc stores the payload inline, with isChunked = false and
\* without writing a child record, exactly when the serialized large fields
\* are shorter than the threshold; otherwise the parent gets isChunked = true
\* and chunkCount = N = ceil(length / threshold), loses the large fields, and
\* the child records 0..N-1 are written, each at most the threshold long,
\* their contents in index order being the serialized string; no other child
\* record is written.
C11_ChunkingThreshold ==
    [][SaveReturns =>
         LET docRef == sSaved'.ref
             largeData == sSaved'.largeData
             json == JsonStringify(largeData)
             n == CeilDiv(Len(json), CHUNK_SIZE)
             parent == store'.docs[docRef].data
             records == store'.chunks[docRef]
         IN IF Len(json) < CHUNK_SIZE
            THEN /\ parent.isChunked = FALSE
                 /\ \A k \in EntryKeys(largeData) :
                       k \in DOMAIN parent /\ parent[k] = EntriesAsFields(largeData)[k]
                 /\ store'.chunks = store.chunks
            ELSE /\ parent.isChunked = TRUE
                 /\ parent.chunkCount = n
                 /\ \A k \in EntryKeys(largeData) : k \notin DOMAIN parent
                 /\ 0..(n - 1) \subseteq DOMAIN records
                 /\ \A i \in 0..(n - 1) : Len(records[i]) <= CHUNK_SIZE
                 /\ CombineFrom(records, 0..(n - 1)) = json
                 /\ \A i \in (DOMAIN records) \ (0..(n - 1)) :
                       i \in DOMAIN store.chunks[docRef]
                       /\ records[i] = store.chunks[docRef][i]]_vars

\* a payload of two chunks, the second one shorter than the threshold, has
\* been saved
C11_Witness ==
    /\ sSaved.done
    /\ ~sLoaded.done
    /\ IsChunkedDoc(store, sSaved.ref)
    /\ store.docs[sSaved.ref].data.chunkCount = 2
    /\ Len(JsonStringify(sSaved.largeData)) % CHUNK_SIZE # 0
    /\ DOMAIN store.chunks[sSaved.ref] = {0, 1}

\* ------------------------------------------------------------------------
\* Properties of the App component
\* ------------------------------------------------------------------------
\* C2: starting from a collection with unique paths, after any sequence of
\* patch applications, manual single-file saves and reverts (and their
\* failures), the live file collection never holds two records with the
\* same path.
C2_LivePathsUnique == UniquePaths(generatedCode)

\* a patch has been applied to the live collection of two files and a
\* manual save of the other file has then replaced its record
C2_Witness ==
    /\ DoneMessage \in Range(chatHistory)
    /\ save.pc = "updatePackage"
    /\ generatedCode = save.updatedCode
    /\ changedFilePaths = {"p1", "p2"}
    /\ Len(generatedCode) = 2

\* the files a stored checkpoint holds
StoredCheckpointFiles(db, r) == LoadCheckpoint(db, r).files

\* C12: once a checkpoint has been created, no step of a chat-driven patch,
\* a manual save or a revert changes its stored record or chunk records, so
\* its stored files stay what they were; and a checkpoint the App holds in
\* memory (in the list, or awaiting confirmation) has the files stored for it.
C12_CheckpointsImmutable ==
    [][/\ \A r \in CheckpointRefs :
             store.docs[r].exists =>
                 /\ store'.docs[r] = store.docs[r]
                 /\ store'.chunks[r] = store.chunks[r]
                 /\ StoredCheckpointFiles(store', r) = StoredCheckpointFiles(store, r)
       /\ \A i \in 1..Len(checkpoints') :
             checkpoints'[i].files = StoredCheckpointFiles(store', checkpoints'[i].id)
       /\ checkpointToRevert' # NoCheckpoint =>
             checkpointToRevert'.files
                 = StoredCheckpointFiles(store', checkpointToRevert'.id)]_vars

\* the live collection was set to the files of the first checkpoint by a
\* revert and has been changed since, and so has the persisted collection
C12_Witness ==
    /\ RevertMessage("Initial Version") \in Range(chatHistory)
    /\ send.pc = "idle" /\ save.pc = "idle" /\ revert.pc = "idle"
    /\ generatedCode # StoredCheckpointFiles(store, 1)
    /\ getPackage(store).files = Arr(generatedCode)

\* the checkpoint created last
LatestCheckpoint(db) == LoadCheckpoint(db, NewCheckpointRef(db) - 1)

\* the step in which handleSendMessage puts the patched collection live
ChatChangeApplied == send.pc = "updatePackage" /\ send'.pc = "addModelMessage"

\* C13 (as claimed): while the model is asked for the patch, and until the
\* change is applied, the checkpoint of the request is persisted with the
\* user's request text as its message; and when the change is applied to the
\* live collection, the files of that checkpoint are the live collection as
\* it is immediately before the change.
C13_CheckpointBeforeChatChange ==
    [][/\ send'.pc \in {"refineCode", "updatePackage"} =>
             LatestCheckpoint(store').message = send'.message
       /\ ChatChangeApplied =>
             /\ LatestCheckpoint(store).message = send.message
             /\ LatestCheckpoint(store).files = generatedCode]_vars

\* the step in which handleConfirmRevert puts the checkpoint's files live
RevertApplied == revert.pc = "updatePackage" /\ revert'.pc = "addChatMessage"

\* C14 (as claimed): when a revert replaces the live collection, some stored
\* checkpoint holds the live collection as it is before the revert, so the
\* overwritten state can be reverted to afterwards.
C14_CheckpointBeforeRevert ==
    [][RevertApplied =>
         \E r \in CheckpointRefs :
             /\ store.docs[r].exists
             /\ StoredCheckpointFiles(store, r) = generatedCode]_vars

\* the step in which handleConfirmRevert has stored its chat message and ends
RevertSucceeded ==
    revert.pc = "addChatMessage" /\ revert'.pc = "idle" /\ chatMessages' # chatMessages

\* the stored checkpoints: their records and chunk records
StoredCheckpoints(db) ==
    [r \in CheckpointRefs |-> [doc |-> db.docs[r], chunks |-> db.chunks[r]]]

\* C15: the step of handleConfirmRevert that puts the checkpoint live sets
\* the live collection to exactly the files stored for the checkpoint picked
\* and appends no chat message; the step that ends a successful revert
\* appends exactly one message, the one recording the revert to that
\* checkpoint, to the history and to the stored chat, and leaves the live
\* collection alone; neither step adds, removes or modifies a stored
\* checkpoint.
C15_RevertOutcome ==
    [][/\ RevertApplied =>
             /\ store.docs[revert.id].exists
             /\ generatedCode' = StoredCheckpointFiles(store, revert.id)
             /\ chatHistory' = chatHistory
             /\ chatMessages' = chatMessages
             /\ StoredCheckpoints(store') = StoredCheckpoints(store)
       /\ RevertSucceeded =>
             /\ chatHistory' = Append(chatHistory,
                                      RevertMessage(LoadCheckpoint(store, revert.id).message))
             /\ chatMessages' = Append(chatMessages,
                                       RevertMessage(LoadCheckpoint(store, revert.id).message))
             /\ generatedCode' = generatedCode
             /\ StoredCheckpoints(store') = StoredCheckpoints(store)]_vars

\* a revert to the first checkpoint has succeeded after a chat-driven patch
\* had changed the live collection (the revert found changed paths): the
\* live collection is the files of that checkpoint again, the history ends
\* with the revert message, and the two checkpoints are stored
C15_Witness ==
    /\ revert.pc = "idle" /\ send.pc = "idle" /\ save.pc = "idle"
    /\ DoneMessage \in Range(chatHistory)
    /\ chatHistory[Len(chatHistory)] = RevertMessage("Initial Version")
    /\ changedFilePaths # {}
    /\ generatedCode = StoredCheckpointFiles(store, 1)
    /\ store.docs[2].exists

\* the paths of post that pre lacks or holds with another content
ChangedBetween(pre, post) ==
    {post[i].path : i \in {k \in 1..Len(post) :
                               ~HoldsFile(pre, post[k].path, post[k].content)}}

\* the step in which a manual save has been stored
SaveSucceeded == save.pc = "updatePackage" /\ save'.pc = "idle" /\ store' # store

\* C16 (as claimed): when a chat-driven patch or a revert puts its collection
\* live, the changed-path set is exactly the set of paths the new live
\* collection holds that the collection just replaced lacked or held with
\* another content; and when a manual save has been stored, the set is
\* exactly the paths that differ between the collection the save started
\* from and the one it stored (the saved path alone).
C16_ChangedPathsExact ==
    [][/\ (ChatChangeApplied \/ RevertApplied) =>
             changedFilePaths' = ChangedBetween(generatedCode, generatedCode')
       /\ SaveSucceeded =>
             changedFilePaths' = ChangedBetween(save.originalCode, save.updatedCode)]_vars

\* the step in which handleSendMessage ends after one of its awaits has
\* rejected or building the diffs has thrown: out of the catch block, or out
\* of the rejected addChatMessage of the user's message
SendFailed ==
    /\ send'.pc = "idle"
    /\ send.pc \in {"addErrorMessage", "addUserMessage"}

\* C17 (as claimed): when handleSendMessage ends after a failed step, the
\* live collection is the collection that was live when the request was
\* made, and the chat history ends with the message recording the failure.
C17_FailedChangeLeavesLive ==
    [][SendFailed =>
         /\ generatedCode' = send.generatedCode
         /\ chatHistory' # <<>>
         /\ chatHistory'[Len(chatHistory')] = ErrorMessage]_vars

\* C18 (as claimed): from the entry of handleSendMessage until it ends, no
\* manual save and no revert starts, and none is running when it is entered.
C18_SinglePatchApplyInFlight ==
    [][/\ send.pc # "idle" =>
             /\ ~(save.pc = "idle" /\ save'.pc # "idle")
             /\ ~(revert.pc = "idle" /\ revert'.pc # "idle")
       /\ (send.pc = "idle" /\ send'.pc # "idle") =>
             (save.pc = "idle" /\ revert.pc = "idle")]_vars

\* no chat change, manual save or revert is running
NoHandlerInFlight == send.pc = "idle" /\ save.pc = "idle" /\ revert.pc = "idle"

\* the file collection a load of the package record yields
PersistedFiles(db) == getPackage(db).files

\* C19 (as claimed): whenever no handler is running, the live collection is
\* the persisted collection of the project.
C19_LiveEqualsPersisted ==
    NoHandlerInFlight => PersistedFiles(store) = Arr(generatedCode)

\* the line-diff map derived from a (pre, post) pair of collections: for
\* every path of post, the diff from its content in pre (or the empty text)
\* to its content in post, when that diff is not empty
DerivedDiffs(pre, post) ==
    [p \in {q \in DOMAIN ContentMap(post) :
               calculateLineDiff(FirstContent(pre, q), ContentMap(post)[q]) # {}} |->
        calculateLineDiff(FirstContent(pre, p), ContentMap(post)[p])]

\* C20 (as claimed): when a chat-driven patch or a revert puts its
\* collection live, the line-diff map is the map derived from the collection
\* just replaced and the new live collection: an entry for every path of the
\* new collection whose diff is not empty, equal to that diff, and no entry
\* for any other path.
C20_LineDiffsDerived ==
    [][(ChatChangeApplied \/ RevertApplied) =>
          fileDiffs' = DerivedDiffs(generatedCode, generatedCode')]_vars

\* the step in which handleSaveFile makes its optimistic update
SaveStarted == save.pc = "idle" /\ save'.pc = "updatePackage"

\* C21: the optimistic update of a manual save of path p leaves the
\* line-diff map without an entry for p and with the entry of every other
\* path as it was; the live collection keeps its paths in their order, the
\* file p gets the saved content and every other file keeps its content.
C21_SaveTouchesOnePath ==
    [][SaveStarted =>
         /\ save'.path \notin DOMAIN fileDiffs'
         /\ DOMAIN fileDiffs' = (DOMAIN fileDiffs) \ {save'.path}
         /\ \A q \in DOMAIN fileDiffs' : fileDiffs'[q] = fileDiffs[q]
         /\ Len(generatedCode') = Len(generatedCode)
         /\ \A i \in 1..Len(generatedCode) :
                /\ generatedCode'[i].path = generatedCode[i].path
                /\ generatedCode[i].path # save'.path =>
                       generatedCode'[i].content = generatedCode[i].content
                /\ generatedCode[i].path = save'.path =>
                       /\ generatedCode'[i].content # generatedCode[i].content
                       /\ generatedCode'[i].content \in AppContents]_vars

\* a patch had left line-diff entries for p1 and p2 and both paths in the
\* changed-path set; the save of p1 now running has removed the entry of p1
\* and kept the entry of p2, and the live collection still holds both paths
C21_Witness ==
    /\ save.pc = "updatePackage"
    /\ save.path = "p1"
    /\ send.pc = "idle"
    /\ DoneMessage \in Range(chatHistory)
    /\ changedFilePaths = {"p1", "p2"}
    /\ DOMAIN fileDiffs = {"p2"}
    /\ fileDiffs["p2"] = {1, 2}
    /\ Len(generatedCode) = 2
    /\ generatedCode[1].content = <<"a">>

\* ------------------------------------------------------------------------
\* Properties of makeGeminiRequestWithRetry
\* ------------------------------------------------------------------------
RetryEnded == retry.pc \in {"returned", "raised"}

IsQuotaError(e) == e.code = 429 \/ e.status = "RESOURCE_EXHAUSTED"

\* the texts one attempt can accumulate: at most n chunks with text
RECURSIVE AttemptTexts(_)
AttemptTexts(n) ==
    IF n = 0 THEN {<<>>}
    ELSE AttemptTexts(n - 1)
         \cup {t \o c : t \in AttemptTexts(n - 1), c \in ChunkTexts}

NonRetriableCaught ==
    /\ Len(retry'.failures) = Len(retry.failures) + 1
    /\ LET e == retry'.failures[Len(retry'.failures)]
       IN ~IsQuotaError(e)

\* C23: when an attempt fails with an error that is not a resource-exhaustion
\* error, the call raises in that same step, on whichever attempt: it sets
\* no timer, writes no retry line, and issues no request afterwards; the
\* input-too-large error is raised as such, any other error is rethrown.
C23_NonRetriableRaisesAtOnce ==
    [][/\ NonRetriableCaught =>
             /\ retry'.pc = "raised"
             /\ retry'.waits = retry.waits
             /\ retry'.requests = retry.requests
             /\ retry'.result.error = retry'.failures[Len(retry'.failures)]
             /\ retry'.result.kind =
                   (IF retry'.result.error = TooLargeError THEN "tooLarge" ELSE "rethrown")
       /\ retry.pc = "raised" => retry' = retry]_vars

\* the second request has failed with the input-too-large error after one
\* wait, and the call has raised it with two requests made
C23_Witness ==
    /\ retry.pc = "raised"
    /\ retry.result.kind = "tooLarge"
    /\ retry.attempt = 2
    /\ retry.requests = 2
    /\ Len(retry.waits) = 1
    /\ Len(retry.failures) = 2

\* 2^n
RECURSIVE Pow2(_)
Pow2(n) == IF n = 0 THEN 1 ELSE 2 * Pow2(n - 1)

\* the milliseconds a Duration string stands for: whole seconds and tenths
DurationMillis(text) ==
    LET last == DigitRunEnd(text, 1)
    IN ParseIntFrom(text, 1, last, 0) * 1000
       + (IF text[last + 1] = "." THEN DigitValue[text[last + 2]] * 100 ELSE 0)

\* the wait the claim gives for the retry after the k-th failed attempt
ClaimedWait(k, e) ==
    IF e.retryDelay # NoHint THEN DurationMillis(e.retryDelay)
    ELSE InitialDelay * Pow2(k - 1)

\* C24 (as claimed): the wait set after the k-th failed attempt is the time
\* of the retry-after hint of that attempt's error when it carries one, and
\* 1000 * 2^(k-1) milliseconds otherwise.
C24_WaitTimes ==
    \A k \in 1..Len(retry.waits) :
        retry.waits[k] = ClaimedWait(k, retry.failures[k])

\* sanity: the claim on the errors whose hint is a whole number of seconds
WaitTimesForWholeHints ==
    \A k \in 1..Len(retry.waits) :
        (\A i \in 1..Len(retry.failures[k].retryDelay) : retry.failures[k].retryDelay[i] # ".")
            => retry.waits[k] = ClaimedWait(k, retry.failures[k])

\* ------------------------------------------------------------------------
\* Properties of generateCode
\* ------------------------------------------------------------------------
PackageStatus(db) == db.docs[PkgRef].data.status

\* generateCode has returned or its promise has rejected
GenEnded == gen.pc \in {"done", "rejected"}

\* completed, with the generated files stored and an "Initial Version"
\* checkpoint holding the same files
CompletedOutcome ==
    /\ PackageStatus(store) = "completed"
    /\ getPackage(store).files = Arr(gen.files)
    /\ \E r \in CheckpointRefs :
          /\ store.docs[r].exists
          /\ LoadCheckpoint(store, r).message = "Initial Version"
          /\ LoadCheckpoint(store, r).files = gen.files

\* failed, with the error message stored and no files stored
FailedOutcome ==
    /\ PackageStatus(store) = "failed"
    /\ store.docs[PkgRef].data.error = gen.errorMessage
    /\ gen.errorMessage # ""
    /\ getPackage(store).files.isNull

\* C25 (as claimed): every run of generateCode ends, and when it has ended
\* the package is completed with its files and its first checkpoint, or
\* failed with the error message and without files; and a package stored as
\* completed is not marked failed afterwards.
C25_GenerationEndsInOneStatus ==
    /\ <>GenEnded
    /\ [](GenEnded => (CompletedOutcome \/ FailedOutcome))
    /\ [][PackageStatus(store) = "completed" =>
             PackageStatus(store') = "completed"]_vars

\* sanity: a run all of whose store writes succeed ends in one of the two
\* outcomes
GenerationOutcomeWithoutStoreFailure ==
    (gen.pc = "done" /\ gen.errorMessage # "store"
       /\ (retry.result.error = ProgressError => retry.result.kind = "text"))
        => (CompletedOutcome \/ FailedOutcome)

\* ------------------------------------------------------------------------
\* Properties of the chunked store under sequences of saves
\* ------------------------------------------------------------------------
\* C26 (as claimed): after any sequence of saves of a record, the chunk
\* records a load reassembles are those of the most recent save alone (their
\* concatenation is its serialized payload), and a load returns the base
\* fields merged with the large fields of that save.
C26_LatestSaveWins ==
    sSaved.done =>
        /\ IsChunkedDoc(store, sSaved.ref) =>
              CombinedJson(store.chunks[sSaved.ref]) = JsonStringify(sSaved.largeData)
        /\ (sLoaded.done /\ sLoaded.ref = sSaved.ref) =>
              LoadedIsMerge(sLoaded.result, sSaved.baseData, sSaved.largeData)

\* ------------------------------------------------------------------------
\* Properties of the App handlers on the persisted package
\* ------------------------------------------------------------------------
\* the originalFiles a load of the package record yields
PersistedOriginalFiles(db) == getPackage(db).originalFiles

\* C27 (as claimed): whatever patches, reverts and manual saves have called
\* updatePackage, the persisted originalFiles is the collection stored when
\* the generation was finalized (the files of the first checkpoint), never
\* null.
C27_OriginalFilesPreserved ==
    PersistedOriginalFiles(store) = Arr(StoredCheckpointFiles(store, 1))

\* the paths the patch of the running request names
PatchPaths == {send.patch[i].path : i \in 1..Len(send.patch)}

\* files holds path p exactly as held does
SameAt(files, held, p) ==
    \A c \in AppContents : HoldsFile(files, p, c) <=> HoldsFile(held, p, c)

\* C28 (as claimed): when handleSendMessage applies its patch, every path
\* the patch does not name is, in the new live collection and in the
\* persisted one (when its load reassembles), as the live collection held
\* it just before (with what a save or revert that completed during the
\* request gave it).
C28_InterveningChangeKept ==
    [][ChatChangeApplied /\ save.pc = "idle" /\ revert.pc = "idle" =>
          \A p \in Paths \ PatchPaths :
              /\ SameAt(generatedCode', generatedCode, p)
              /\ ~PersistedFiles(store').isNull =>
                     SameAt(PersistedFiles(store').items, generatedCode, p)]_vars

\* the step in which handleSaveFile's catch block rolls the save back
SaveFailed == save.pc = "updatePackage" /\ generatedCode' = save.originalCode /\ save' = SaveIdle /\ store' = store

\* C29 (as claimed): when the write of a manual save fails, the saved path
\* gets its content from before the save back, no other path of the live
\* collection changes in the rollback, and, when the save was the only
\* handler call since the package was opened, the Changed-Path Set and the
\* Line-Diff Map are empty again as they were before it.
C29_FailedSaveRolledBack ==
    [][SaveFailed =>
          /\ SameAt(generatedCode', save.originalCode, save.path)
          /\ \A p \in Paths \ {save.path} : SameAt(generatedCode', generatedCode, p)
          /\ calls = 1 => changedFilePaths' = {} /\ fileDiffs' = NoDiffs]_vars

\* ------------------------------------------------------------------------
\* Properties of loads that interleave with a save in several batches
\* ------------------------------------------------------------------------
\* the record at docRef has no chunk record beyond the chunk count of its
\* parent record (none is left over from an earlier, longer payload)
NoLeftoverChunks(db, docRef) ==
    IsChunkedDoc(db, docRef) =>
        \A i \in DOMAIN db.chunks[docRef] : i < db.docs[docRef].data.chunkCount

\* the result of a load is the complete payload of some save
WholePayload(result) ==
    \E baseData \in StoreBaseRecords, largeData \in StorePayloads :
        LoadedIsMerge(result, baseData, largeData)

\* C30 (as claimed): a load of a stored record, at any moment between the
\* batch commits of a chunked save of the record or after that save failed
\* part-way, returns the complete payload of one save (the one before or the
\* new one): its large fields are never missing. Records holding chunks
\* left over by an earlier save are set aside.
C30_LoadSeesWholePayload ==
    (store.docs[PkgRef].exists /\ NoLeftoverChunks(store, PkgRef)) =>
        WholePayload(loadLargeDoc(store, PkgRef))

====
